---- MODULE Spec2Model ----
\* Model of the md-file-viewer Cloudflare Worker (current worker source,
\* src/unnamed/part_002 lines 297-762): the R2 blob store, the KV namespace with
\* the meta:{id} records, the history list and the folder list, the request
\* handlers and the scheduled retention sweep.
\*
\* Every handler is an operator from the stores (and its request) to its
\* response status and the stores it leaves; an action applies one handler, so
\* a handler runs to completion as one step and reads the clock once.  The
\* folder delete is also modelled in two steps, its read of the folder list
\* and its writes, with other requests served in between (pending).
\* Timestamps are the numeric values that toISOString() /
\* new Date(...).getTime() carry; an absent JSON field is None.
\* Strings that the code trims or tests for a suffix are sequences of
\* one-character strings.
EXTENDS Integers, Sequences, FiniteSets, TLC

VARIABLES clock, blobs, meta, history, folders, nextId, nextFolder, pending

vars == <<clock, blobs, meta, history, folders, nextId, nextFolder, pending>>

\* ---------------------------------------------------------------- bounds
MaxFiles == 2
MaxFolders == 2
MaxTicks == 4
MaxMembers == 2

\* the longest time, in units of the clock, the store calls of a creation take
MaxLatency == 1
CapFiles == 101

\* ---------------------------------------------------------------- constants
\* The thresholds of runRetention, in seconds: the source's values are these
\* times 1000 (milliseconds), which exceed the 32-bit integers of the checker;
\* every timestamp of the model is on the same scale, so the comparisons agree.
ARCHIVE_MS == 30 * 24 * 60 * 60
DELETE_MS == 60 * 24 * 60 * 60
HistoryMax == 100

\* The clock advances in steps of half the archive age, so that ages of
\* exactly ARCHIVE_MS and exactly DELETE_MS occur, as do ages between and below.
TickStep == ARCHIVE_MS \div 2

\* an absent (undefined) JSON field
None == -1
\* an absent folderId / no folder argument
NoFolder == <<>>

FileIds == 1..MaxFiles
FolderIds == {<<"f", n>> : n \in 1..MaxFolders}

\* ---------------------------------------------------------------- strings
Str_a_md == <<"a", ".", "M", "D">>
Str_b_txt == <<"b", ".", "t", "x", "t">>
Str_untitled == <<"u", ".", "m", "d">>
Str_pasted == <<"P", "M">>
Str_empty == <<>>
Str_blank == <<" ">>
Str_x_padded == <<" ", "x", " ">>
Str_f_padded == <<" ", "f">>
Str_g == <<"g">>

IsSpace(ch) == ch = " "

ToLower(ch) == IF ch = "M" THEN "m" ELSE IF ch = "D" THEN "d" ELSE ch

RECURSIVE TrimStart(_)
TrimStart(s) == IF s # <<>> /\ IsSpace(Head(s)) THEN TrimStart(Tail(s)) ELSE s

RECURSIVE TrimEnd(_)
TrimEnd(s) ==
    IF s # <<>> /\ IsSpace(s[Len(s)]) THEN TrimEnd(SubSeq(s, 1, Len(s) - 1)) ELSE s

Trim(s) == TrimEnd(TrimStart(s))

EndsWithMd(s) ==
    /\ Len(s) >= 3
    /\ [i \in 1..3 |-> ToLower(s[Len(s) - 3 + i])] = <<".", "m", "d">>

\* ---------------------------------------------------------------- helpers
Ids(s) == {s[i].id : i \in 1..Len(s)}

Remove(f, k) == [x \in (DOMAIN f) \ {k} |-> f[x]]

RemoveAll(f, ks) == [x \in (DOMAIN f) \ ks |-> f[x]]

Put(f, k, v) == [x \in (DOMAIN f) \cup {k} |-> IF x = k THEN v ELSE f[x]]

\* ---------------------------------------------------------------- stores
\* R2 bucket MD_FILES (blobs), KV namespace HISTORY (meta:{id}, history, folders)
St == [blobs |-> blobs, meta |-> meta, history |-> history, folders |-> folders]

Ok(st) == [ok |-> TRUE, st |-> st]

\* a request answered with status 400, or with status 404, before any store write
BadRequest(st) == [ok |-> FALSE, error |-> 400, st |-> st]

NotFound(st) == [ok |-> FALSE, error |-> 404, st |-> st]

\* an exception thrown out of a handler: the request fails with status 500
Fault(st) == [ok |-> FALSE, error |-> 500, st |-> st]

\* a stored value on which JSON.parse throws
Corrupt == [corrupt |-> TRUE]

\* ---------------------------------------------------------------- history
\* the stored list, [] when the key is missing or its value does not parse
readHistory(h) == IF h = <<Corrupt>> THEN <<>> ELSE h

\* addHistoryEntry without the filter that drops the id's earlier entry
addHistoryEntry_NoDedup(st, id, filename, source, now) ==
    LET entry == [id |-> id, filename |-> filename, source |-> source, viewedAt |-> now]
    IN  [st EXCEPT
           !.meta = IF id \in DOMAIN st.meta /\ st.meta[id] # Corrupt
                    THEN [@ EXCEPT ![id].lastAccessedAt = now, ![id].archivedAt = None]
                    ELSE @,
           !.history = <<entry>> \o readHistory(st.history)]

\* addHistoryEntry without `delete meta.archivedAt`
addHistoryEntry_KeepArchived(st, id, filename, source, now) ==
    LET filtered == SelectSeq(readHistory(st.history), LAMBDA e : e.id # id)
        entry == [id |-> id, filename |-> filename, source |-> source, viewedAt |-> now]
    IN  [st EXCEPT
           !.meta = IF id \in DOMAIN st.meta /\ st.meta[id] # Corrupt
                    THEN [@ EXCEPT ![id].lastAccessedAt = now]
                    ELSE @,
           !.history = <<entry>> \o filtered]

\* addHistoryEntry writing a metadata record when it read none
addHistoryEntry_Upsert(st, id, filename, source, now) ==
    LET filtered == SelectSeq(readHistory(st.history), LAMBDA e : e.id # id)
        entry == [id |-> id, filename |-> filename, source |-> source, viewedAt |-> now]
        fresh == [filename |-> filename, source |-> source, size |-> 0,
                  created |-> None, lastAccessedAt |-> now,
                  archivedAt |-> None, folderId |-> NoFolder]
    IN  [st EXCEPT
           !.meta = IF id \in DOMAIN st.meta /\ st.meta[id] # Corrupt
                    THEN [@ EXCEPT ![id].lastAccessedAt = now, ![id].archivedAt = None]
                    ELSE Put(@, id, fresh),
           !.history = <<entry>> \o filtered]

addHistoryEntry(st, id, filename, source, now) ==
    LET filtered == SelectSeq(readHistory(st.history), LAMBDA e : e.id # id)
        entry == [id |-> id, filename |-> filename, source |-> source, viewedAt |-> now]
    IN  [st EXCEPT
           !.meta = IF id \in DOMAIN st.meta /\ st.meta[id] # Corrupt
                    THEN [@ EXCEPT ![id].lastAccessedAt = now, ![id].archivedAt = None]
                    ELSE @,
           !.history = <<entry>> \o filtered]

\* ---------------------------------------------------------------- scans
\* every meta:{id} record that parses
listAllMeta(m) ==
    IF \A id \in DOMAIN m : m[id] # Corrupt
    THEN m
    ELSE [id \in {k \in DOMAIN m : m[k] # Corrupt} |-> m[id]]

\* the file listing without the archivedAt test
FileListing_All(st) == DOMAIN listAllMeta(st.meta)

\* GET /api/files: the ids listed
FileListing(st) ==
    {id \in DOMAIN listAllMeta(st.meta) : listAllMeta(st.meta)[id].archivedAt = None}

\* the history route without the metadata filter
ListView_Unfiltered(st) == readHistory(st.history)

\* GET /api/history: the entries returned
ListView(st) ==
    LET allMeta == listAllMeta(st.meta)
    IN  SelectSeq(readHistory(st.history),
               LAMBDA e : e.id \in DOMAIN allMeta /\ allMeta[e.id].archivedAt = None)

\* ---------------------------------------------------------------- retention
\* the reference time taken from created first
RefTime_CreatedFirst(rec) == IF rec.created # None THEN rec.created ELSE rec.lastAccessedAt

RefTime(rec) == IF rec.lastAccessedAt # None THEN rec.lastAccessedAt ELSE rec.created

\* the delete test counting the age from created
SweepDeletes_FromCreated(rec, now) == rec.created # None /\ now - rec.created >= DELETE_MS

\* the delete test with > for >=
SweepDeletes_Strict(rec, now) == RefTime(rec) # None /\ now - RefTime(rec) > DELETE_MS

SweepDeletes(rec, now) == RefTime(rec) # None /\ now - RefTime(rec) >= DELETE_MS

\* the archive test at half the age
SweepArchives_Early(rec, now) ==
    /\ RefTime(rec) # None
    /\ ~SweepDeletes(rec, now)
    /\ now - RefTime(rec) >= ARCHIVE_MS \div 2
    /\ rec.archivedAt = None

\* the archive test without `!meta.archivedAt`
SweepArchives_Restamp(rec, now) ==
    /\ RefTime(rec) # None
    /\ ~SweepDeletes(rec, now)
    /\ now - RefTime(rec) >= ARCHIVE_MS

\* the archive test with > for >=
SweepArchives_Strict(rec, now) ==
    /\ RefTime(rec) # None
    /\ ~SweepDeletes(rec, now)
    /\ now - RefTime(rec) > ARCHIVE_MS
    /\ rec.archivedAt = None

SweepArchives(rec, now) ==
    /\ RefTime(rec) # None
    /\ ~SweepDeletes(rec, now)
    /\ now - RefTime(rec) >= ARCHIVE_MS
    /\ rec.archivedAt = None

\* the sweep without its history clean-up
runRetention_KeepHistory(st, now) ==
    LET allMeta == listAllMeta(st.meta)
        deletedIds == {id \in DOMAIN allMeta : SweepDeletes(allMeta[id], now)}
        kept == RemoveAll(st.meta, deletedIds)
    IN  [st EXCEPT
           !.blobs = RemoveAll(@, deletedIds),
           !.meta = [id \in DOMAIN kept |->
                       IF id \in DOMAIN allMeta /\ SweepArchives(allMeta[id], now)
                       THEN [allMeta[id] EXCEPT !.archivedAt = now]
                       ELSE kept[id]]]

runRetention(st, now) ==
    LET allMeta == listAllMeta(st.meta)
        deletedIds == {id \in DOMAIN allMeta : SweepDeletes(allMeta[id], now)}
        kept == RemoveAll(st.meta, deletedIds)
    IN  [st EXCEPT
           !.blobs = RemoveAll(@, deletedIds),
           !.meta = [id \in DOMAIN kept |->
                       IF id \in DOMAIN allMeta /\ SweepArchives(allMeta[id], now)
                       THEN [allMeta[id] EXCEPT !.archivedAt = now]
                       ELSE kept[id]],
           !.history = IF deletedIds # {}
                       THEN SelectSeq(readHistory(@), LAMBDA e : e.id \notin deletedIds)
                       ELSE @]

\* ---------------------------------------------------------------- files
\* the creation with the clock read once for the record and the history entry
createFileAt_Once(st, id, filename, source, size, now, later) ==
    LET rec == [filename |-> filename, source |-> source, size |-> size,
                created |-> now, lastAccessedAt |-> now,
                archivedAt |-> None, folderId |-> NoFolder]
        put == [st EXCEPT !.blobs = Put(@, id, size), !.meta = Put(@, id, rec)]
    IN  addHistoryEntry(put, id, filename, source, now)

\* creation of a file: the blob and the metadata record, stamped with the
\* handler's `now`, then addHistoryEntry, which reads the clock again (later)
createFileAt(st, id, filename, source, size, now, later) ==
    LET rec == [filename |-> filename, source |-> source, size |-> size,
                created |-> now, lastAccessedAt |-> now,
                archivedAt |-> None, folderId |-> NoFolder]
        put == [st EXCEPT !.blobs = Put(@, id, size), !.meta = Put(@, id, rec)]
    IN  addHistoryEntry(put, id, filename, source, later)

\* creation of a file, both clock readings in one instant
createFile(st, id, filename, source, size, now) ==
    createFileAt(st, id, filename, source, size, now, now)

\* POST /api/upload
uploadAt(st, hasFile, name, size, id, now, later) ==
    LET originalName == IF name # Str_empty THEN name ELSE Str_untitled
    IN  IF ~hasFile \/ ~EndsWithMd(originalName)
        THEN BadRequest(st)
        ELSE Ok(createFileAt(st, id, originalName, "upload", size, now, later))

upload(st, hasFile, name, size, id, now) == uploadAt(st, hasFile, name, size, id, now, now)

\* POST /api/paste
pasteAt(st, size, title, id, now, later) ==
    LET displayName == IF title # Str_empty THEN title ELSE Str_pasted
    IN  IF size = 0
        THEN BadRequest(st)
        ELSE Ok(createFileAt(st, id, displayName, "paste", size, now, later))

paste(st, size, title, id, now) == pasteAt(st, size, title, id, now, now)

\* `${id}.md`
DefaultName(id) == <<ToString(id), ".", "m", "d">>

\* the view without the check of the blob
viewFile_NoCheck(st, id, now) ==
    LET known == id \in DOMAIN st.meta /\ st.meta[id] # Corrupt
        displayName == IF known THEN st.meta[id].filename ELSE DefaultName(id)
        source == IF known THEN st.meta[id].source ELSE "upload"
    IN  Ok(addHistoryEntry(st, id, displayName, source, now))

\* GET /api/files/:id
viewFile(st, id, now) ==
    IF id \notin DOMAIN st.blobs
    THEN NotFound(st)
    ELSE LET known == id \in DOMAIN st.meta /\ st.meta[id] # Corrupt
             displayName == IF known THEN st.meta[id].filename ELSE DefaultName(id)
             source == IF known THEN st.meta[id].source ELSE "upload"
         IN  Ok(addHistoryEntry(st, id, displayName, source, now))

\* the rename writing a metadata record for an id that has none
renameFile_Upsert(st, id, filename) ==
    IF filename = Str_empty \/ Trim(filename) = Str_empty
    THEN BadRequest(st)
    ELSE LET rec == IF id \in DOMAIN st.meta
                    THEN st.meta[id]
                    ELSE [filename |-> Str_empty, source |-> "upload", size |-> 0,
                          created |-> None, lastAccessedAt |-> None,
                          archivedAt |-> None, folderId |-> NoFolder]
         IN  Ok([st EXCEPT !.meta = Put(@, id, [rec EXCEPT !.filename = Trim(filename)])])

\* the rename bringing an archived file back
renameFile_Unarchive(st, id, filename) ==
    IF filename = Str_empty \/ Trim(filename) = Str_empty
    THEN BadRequest(st)
    ELSE IF id \notin DOMAIN st.meta
    THEN NotFound(st)
    ELSE IF st.meta[id] = Corrupt
    THEN Fault(st)
    ELSE LET trimmed == Trim(filename)
             h == readHistory(st.history)
         IN  Ok([st EXCEPT
                   !.meta = [@ EXCEPT ![id].filename = trimmed, ![id].archivedAt = None],
                   !.history = [i \in 1..Len(h) |->
                                  IF h[i].id = id THEN [h[i] EXCEPT !.filename = trimmed]
                                  ELSE h[i]]])

\* the rename storing the name as it was sent
renameFile_NoTrim(st, id, filename) ==
    IF filename = Str_empty \/ Trim(filename) = Str_empty
    THEN BadRequest(st)
    ELSE IF id \notin DOMAIN st.meta
    THEN NotFound(st)
    ELSE IF st.meta[id] = Corrupt
    THEN Fault(st)
    ELSE LET h == readHistory(st.history)
         IN  Ok([st EXCEPT
                   !.meta = [@ EXCEPT ![id].filename = filename],
                   !.history = [i \in 1..Len(h) |->
                                  IF h[i].id = id THEN [h[i] EXCEPT !.filename = filename]
                                  ELSE h[i]]])

\* PATCH /api/files/:id
renameFile(st, id, filename) ==
    IF filename = Str_empty \/ Trim(filename) = Str_empty
    THEN BadRequest(st)
    ELSE IF id \notin DOMAIN st.meta
    THEN NotFound(st)
    ELSE IF st.meta[id] = Corrupt
    THEN Fault(st)
    ELSE LET trimmed == Trim(filename)
             h == readHistory(st.history)
         IN  Ok([st EXCEPT
                   !.meta = [@ EXCEPT ![id].filename = trimmed],
                   !.history = [i \in 1..Len(h) |->
                                  IF h[i].id = id
                                  THEN [h[i] EXCEPT !.filename = trimmed]
                                  ELSE h[i]]])

\* the file delete without the history rewrite
\* the delete without the blob's delete
deleteFile_KeepBlob(st, id) ==
    Ok([st EXCEPT
          !.meta = Remove(@, id),
          !.history = SelectSeq(readHistory(@), LAMBDA e : e.id # id)])

deleteFile_KeepHistory(st, id) ==
    Ok([st EXCEPT !.blobs = Remove(@, id), !.meta = Remove(@, id)])

\* DELETE /api/files/:id
deleteFile(st, id) ==
    Ok([st EXCEPT
          !.blobs = Remove(@, id),
          !.meta = Remove(@, id),
          !.history = SelectSeq(readHistory(@), LAMBDA e : e.id # id)])

\* DELETE /api/history
clearHistory(st) == Ok([st EXCEPT !.history = <<>>])

\* a history removal that also drops the file's metadata record
removeHistoryEntry_DropMeta(st, id) ==
    Ok([st EXCEPT !.history = SelectSeq(readHistory(@), LAMBDA e : e.id # id),
                  !.meta = Remove(@, id)])

\* DELETE /api/history/:id
removeHistoryEntry(st, id) ==
    Ok([st EXCEPT !.history = SelectSeq(readHistory(@), LAMBDA e : e.id # id)])

\* ---------------------------------------------------------------- folders
\* the stored list, [] when the key is missing or its value does not parse
readFolders(fs) == IF fs = <<Corrupt>> THEN <<>> ELSE fs

generateFolderId(n) == <<"f", n>>

HasFolder(fs, gid) == \E i \in 1..Len(fs) : fs[i].id = gid

FolderOf(fs, gid) == fs[CHOOSE i \in 1..Len(fs) : fs[i].id = gid]

Elems(s) == {s[i] : i \in 1..Len(s)}

Without(s, x) == SelectSeq(s, LAMBDA y : y # x)

\* the folder listing with an entry for every member id, with metadata or not
FolderListing_Dangling(st) ==
    LET fs == readFolders(st.folders)
        allMeta == listAllMeta(st.meta)
        file(fid) == IF fid \in DOMAIN allMeta
                     THEN [id |-> fid, filename |-> allMeta[fid].filename,
                           source |-> allMeta[fid].source, size |-> allMeta[fid].size]
                     ELSE [id |-> fid, filename |-> Str_empty, source |-> "upload", size |-> 0]
    IN  [i \in 1..Len(fs) |->
           [id |-> fs[i].id, name |-> fs[i].name, created |-> fs[i].created,
            files |-> [j \in 1..Len(fs[i].fileIds) |-> file(fs[i].fileIds[j])]]]

\* GET /api/folders: per folder, the metadata of the member ids that have some
FolderListing(st) ==
    LET fs == readFolders(st.folders)
        allMeta == listAllMeta(st.meta)
        file(fid) == [id |-> fid, filename |-> allMeta[fid].filename,
                      source |-> allMeta[fid].source, size |-> allMeta[fid].size]
        members(i) == SelectSeq(fs[i].fileIds, LAMBDA fid : fid \in DOMAIN allMeta)
    IN  [i \in 1..Len(fs) |->
           [id |-> fs[i].id, name |-> fs[i].name, created |-> fs[i].created,
            files |-> [j \in 1..Len(members(i)) |-> file(members(i)[j])]]]

\* the folder create storing the name as it was sent
createFolder_NoTrim(st, name, gid, now) ==
    IF name = Str_empty \/ Trim(name) = Str_empty
    THEN BadRequest(st)
    ELSE Ok([st EXCEPT !.folders = Append(readFolders(@),
                                          [id |-> gid, name |-> name,
                                           fileIds |-> <<>>, created |-> now])])

\* POST /api/folders
createFolder(st, name, gid, now) ==
    IF name = Str_empty \/ Trim(name) = Str_empty
    THEN BadRequest(st)
    ELSE Ok([st EXCEPT !.folders = Append(readFolders(@),
                                          [id |-> gid, name |-> Trim(name),
                                           fileIds |-> <<>>, created |-> now])])

\* the folder rename without the test of the folder id
renameFolder_All(st, gid, name) ==
    LET fs == readFolders(st.folders)
    IN  IF name = Str_empty \/ Trim(name) = Str_empty
        THEN BadRequest(st)
        ELSE IF ~HasFolder(fs, gid)
        THEN NotFound(st)
        ELSE Ok([st EXCEPT !.folders = [i \in 1..Len(fs) |->
                                          [fs[i] EXCEPT !.name = Trim(name)]]])

\* PATCH /api/folders/:id
renameFolder(st, gid, name) ==
    LET fs == readFolders(st.folders)
    IN  IF name = Str_empty \/ Trim(name) = Str_empty
        THEN BadRequest(st)
        ELSE IF ~HasFolder(fs, gid)
        THEN NotFound(st)
        ELSE Ok([st EXCEPT !.folders = [i \in 1..Len(fs) |->
                                          IF fs[i].id = gid
                                          THEN [fs[i] EXCEPT !.name = Trim(name)]
                                          ELSE fs[i]]])

\* DELETE /api/folders/:id after its readFolders: the cascade over the members
\* of the folder list fs it read, and the write of that list without the folder
cascade(st, gid, fs) ==
    LET deleted == Elems(FolderOf(fs, gid).fileIds)
    IN  [st EXCEPT
           !.blobs = RemoveAll(@, deleted),
           !.meta = RemoveAll(@, deleted),
           !.history = IF deleted # {}
                       THEN SelectSeq(readHistory(@), LAMBDA e : e.id \notin deleted)
                       ELSE @,
           !.folders = SelectSeq(fs, LAMBDA f : f.id # gid)]

\* the folder delete without the history rewrite
deleteFolder_KeepHistory(st, gid) ==
    LET fs == readFolders(st.folders)
    IN  IF ~HasFolder(fs, gid)
        THEN NotFound(st)
        ELSE Ok([cascade(st, gid, fs) EXCEPT !.history = st.history])

\* DELETE /api/folders/:id
deleteFolder(st, gid) ==
    LET fs == readFolders(st.folders)
    IN  IF ~HasFolder(fs, gid) THEN NotFound(st) ELSE Ok(cascade(st, gid, fs))

\* addFile without the removal from the other folders
addFile_KeepOthers(st, gid, fid) ==
    LET fs == readFolders(st.folders)
    IN  IF ~HasFolder(fs, gid) \/ fid \notin DOMAIN listAllMeta(st.meta)
        THEN NotFound(st)
        ELSE Ok([st EXCEPT
                   !.folders = [i \in 1..Len(fs) |->
                                  IF fs[i].id = gid
                                  THEN [fs[i] EXCEPT !.fileIds = Append(@, fid)]
                                  ELSE fs[i]],
                   !.meta = [@ EXCEPT ![fid].folderId = gid]])

\* POST /api/folders/:id/files, called by public/js/app.js; the handler is
\* the addFile of spec.md section 4.2
addFile(st, gid, fid) ==
    LET fs == readFolders(st.folders)
    IN  IF ~HasFolder(fs, gid) \/ fid \notin DOMAIN listAllMeta(st.meta)
        THEN NotFound(st)
        ELSE Ok([st EXCEPT
                   !.folders = [i \in 1..Len(fs) |->
                                  IF fs[i].id = gid
                                  THEN [fs[i] EXCEPT !.fileIds = Append(@, fid)]
                                  ELSE [fs[i] EXCEPT !.fileIds = Without(@, fid)]],
                   !.meta = [@ EXCEPT ![fid].folderId = gid]])

\* removeFile without the clearing of folderId
removeFile_KeepFolderId(st, gid, fid) ==
    LET fs == readFolders(st.folders)
    IN  IF ~HasFolder(fs, gid)
        THEN NotFound(st)
        ELSE Ok([st EXCEPT
                   !.folders = [i \in 1..Len(fs) |->
                                  IF fs[i].id = gid
                                  THEN [fs[i] EXCEPT !.fileIds = Without(@, fid)]
                                  ELSE fs[i]]])

\* DELETE /api/folders/:id/files/:fileId, called by public/js/app.js; the
\* handler is the removeFile of spec.md section 4.2
removeFile(st, gid, fid) ==
    LET fs == readFolders(st.folders)
    IN  IF ~HasFolder(fs, gid)
        THEN NotFound(st)
        ELSE Ok([st EXCEPT
                   !.folders = [i \in 1..Len(fs) |->
                                  IF fs[i].id = gid
                                  THEN [fs[i] EXCEPT !.fileIds = Without(@, fid)]
                                  ELSE fs[i]],
                   !.meta = IF fid \in DOMAIN listAllMeta(@)
                            THEN [@ EXCEPT ![fid].folderId = NoFolder]
                            ELSE @])

\* POST /api/folders/:id/files/:fileId/move, called by public/js/app.js; the
\* handler is the move of spec.md section 4.2
moveFile(st, src, fid, dst) ==
    LET fs == readFolders(st.folders)
        removed == [i \in 1..Len(fs) |->
                      IF fs[i].id = src
                      THEN [fs[i] EXCEPT !.fileIds = Without(@, fid)]
                      ELSE fs[i]]
    IN  IF ~HasFolder(fs, src) \/ ~HasFolder(fs, dst)
        THEN NotFound(st)
        ELSE Ok([st EXCEPT
                   !.folders = [i \in 1..Len(removed) |->
                                  IF removed[i].id = dst /\ fid \notin Elems(removed[i].fileIds)
                                  THEN [removed[i] EXCEPT !.fileIds = Append(@, fid)]
                                  ELSE removed[i]],
                   !.meta = IF fid \in DOMAIN listAllMeta(@)
                            THEN [@ EXCEPT ![fid].folderId = dst]
                            ELSE @])

\* ---------------------------------------------------------------- actions
Init ==
    /\ clock = 0
    /\ blobs = <<>>
    /\ meta = <<>>
    /\ history = <<>>
    /\ folders = <<>>
    /\ nextId = 1
    /\ nextFolder = 1
    /\ pending = <<>>

\* the stores after a handler
Apply(r) ==
    /\ blobs' = r.st.blobs
    /\ meta' = r.st.meta
    /\ history' = r.st.history
    /\ folders' = r.st.folders

\* crypto.randomUUID(): an id never used before
FreshFile(r) == nextId' = IF r.ok THEN nextId + 1 ELSE nextId

FreshFolder(r) == nextFolder' = IF r.ok THEN nextFolder + 1 ELSE nextFolder

\* the members a folder list may hold in the model
Bounded(r) == \A i \in 1..Len(r.st.folders) : Len(r.st.folders[i].fileIds) <= MaxMembers

Tick(step) ==
    /\ clock + step <= MaxTicks * TickStep
    /\ clock' = clock + step
    /\ UNCHANGED <<blobs, meta, history, folders, nextId, nextFolder, pending>>

Upload(hasFile, name, size, limit) ==
    LET r == upload(St, hasFile, name, size, nextId, clock)
    IN  /\ r.ok => nextId <= limit
        /\ Apply(r)
        /\ FreshFile(r)
        /\ UNCHANGED <<clock, nextFolder, pending>>

Paste(size, title, limit) ==
    LET r == paste(St, size, title, nextId, clock)
    IN  /\ r.ok => nextId <= limit
        /\ Apply(r)
        /\ FreshFile(r)
        /\ UNCHANGED <<clock, nextFolder, pending>>

\* an upload or a paste whose store calls take `took` units of the clock
UploadSlow(hasFile, name, size, limit, took) ==
    LET r == uploadAt(St, hasFile, name, size, nextId, clock, clock + took)
    IN  /\ r.ok => nextId <= limit
        /\ clock + took <= MaxTicks * TickStep
        /\ Apply(r)
        /\ FreshFile(r)
        /\ clock' = IF r.ok THEN clock + took ELSE clock
        /\ UNCHANGED <<nextFolder, pending>>

PasteSlow(size, title, limit, took) ==
    LET r == pasteAt(St, size, title, nextId, clock, clock + took)
    IN  /\ r.ok => nextId <= limit
        /\ clock + took <= MaxTicks * TickStep
        /\ Apply(r)
        /\ FreshFile(r)
        /\ clock' = IF r.ok THEN clock + took ELSE clock
        /\ UNCHANGED <<nextFolder, pending>>

GetFiles == UNCHANGED vars

ViewFile(id) == Apply(viewFile(St, id, clock)) /\ UNCHANGED <<clock, nextId, nextFolder, pending>>

RenameFile(id, filename) ==
    Apply(renameFile(St, id, filename)) /\ UNCHANGED <<clock, nextId, nextFolder, pending>>

DeleteFile(id) == Apply(deleteFile(St, id)) /\ UNCHANGED <<clock, nextId, nextFolder, pending>>

GetHistory == UNCHANGED vars

ClearHistory == Apply(clearHistory(St)) /\ UNCHANGED <<clock, nextId, nextFolder, pending>>

RemoveHistoryEntry(id) ==
    Apply(removeHistoryEntry(St, id)) /\ UNCHANGED <<clock, nextId, nextFolder, pending>>

\* scheduled(): the retention sweep
Sweep == Apply(Ok(runRetention(St, clock))) /\ UNCHANGED <<clock, nextId, nextFolder, pending>>

GetFolders == UNCHANGED vars

CreateFolder(name) ==
    LET r == createFolder(St, name, generateFolderId(nextFolder), clock)
    IN  /\ r.ok => nextFolder <= MaxFolders
        /\ Apply(r)
        /\ FreshFolder(r)
        /\ UNCHANGED <<clock, nextId, pending>>

RenameFolder(gid, name) ==
    Apply(renameFolder(St, gid, name)) /\ UNCHANGED <<clock, nextId, nextFolder, pending>>

DeleteFolder(gid) == Apply(deleteFolder(St, gid)) /\ UNCHANGED <<clock, nextId, nextFolder, pending>>

\* DELETE /api/folders/:id up to its first await: the folder list it read
DeleteFolderRead(gid) ==
    /\ pending = <<>>
    /\ pending' = IF HasFolder(readFolders(folders), gid)
                  THEN <<[id |-> gid, folders |-> readFolders(folders)]>>
                  ELSE <<>>
    /\ UNCHANGED <<clock, blobs, meta, history, folders, nextId, nextFolder>>

\* the rest of that request, on the stores as they are by then
DeleteFolderWrite ==
    /\ pending # <<>>
    /\ Apply(Ok(cascade(St, pending[1].id, pending[1].folders)))
    /\ pending' = <<>>
    /\ UNCHANGED <<clock, nextId, nextFolder>>

AddFile(gid, fid) ==
    LET r == addFile(St, gid, fid)
    IN  Bounded(r) /\ Apply(r) /\ UNCHANGED <<clock, nextId, nextFolder, pending>>

RemoveFile(gid, fid) ==
    Apply(removeFile(St, gid, fid)) /\ UNCHANGED <<clock, nextId, nextFolder, pending>>

MoveFile(src, fid, dst) ==
    LET r == moveFile(St, src, fid, dst)
    IN  Bounded(r) /\ Apply(r) /\ UNCHANGED <<clock, nextId, nextFolder, pending>>

\* a value that does not parse is found under 'history', 'folders' or meta:{id}
CorruptHistory ==
    /\ history' = <<Corrupt>>
    /\ UNCHANGED <<clock, blobs, meta, folders, nextId, nextFolder, pending>>

CorruptFolders ==
    /\ folders' = <<Corrupt>>
    /\ UNCHANGED <<clock, blobs, meta, history, nextId, nextFolder, pending>>

CorruptMeta(id) ==
    /\ id \in DOMAIN meta
    /\ meta' = [meta EXCEPT ![id] = Corrupt]
    /\ UNCHANGED <<clock, blobs, history, folders, nextId, nextFolder, pending>>

\* ---------------------------------------------------------------- store steps
\* Handlers and the sweep taken one store call at a time. A run in flight is a
\* record of pending: op and pc say where it stands, the other fields are its
\* local variables; base (the stores when it began) and alone (no other run
\* was in flight when it began) are kept for the properties only. A finished
\* run stays in pending, with pc = "done", until Retire.
Quiet == \A k \in 1..Len(pending) : pending[k].pc = "done"

InFlight(op) == Cardinality({k \in 1..Len(pending) : pending[k].op = op})

At(i, op, pc) == pending[i].op = op /\ pending[i].pc = pc

Retire ==
    /\ pending # <<>>
    /\ Quiet
    /\ pending' = <<>>
    /\ UNCHANGED <<clock, blobs, meta, history, folders, nextId, nextFolder>>

\* `filtered.unshift(entry)` keeping the new entry only
unshiftEntry_Alone(h, id, filename, source, now) ==
    <<[id |-> id, filename |-> filename, source |-> source, viewedAt |-> now]>>

\* addHistoryEntry: the list it writes, from the list it read
unshiftEntry(h, id, filename, source, now) ==
    <<[id |-> id, filename |-> filename, source |-> source, viewedAt |-> now]>>
        \o SelectSeq(h, LAMBDA e : e.id # id)

\* GET /api/files/:id, first call: MD_FILES.get; 404 without the blob
ViewGetBlob(id) ==
    /\ pending' = IF id \in DOMAIN blobs
                  THEN Append(pending,
                              [op |-> "view", pc |-> "meta", id |-> id, now |-> clock,
                               filename |-> DefaultName(id), source |-> "upload",
                               list |-> <<>>, rec |-> <<>>, base |-> St, alone |-> Quiet])
                  ELSE pending
    /\ UNCHANGED <<clock, blobs, meta, history, folders, nextId, nextFolder>>

\* HISTORY.get of meta:{id} for the display name and the source
ViewGetMeta(i) ==
    /\ At(i, "view", "meta")
    /\ LET id == pending[i].id
           known == id \in DOMAIN meta /\ meta[id] # Corrupt
       IN  pending' = [pending EXCEPT
                         ![i].pc = "history",
                         ![i].filename = IF known THEN meta[id].filename ELSE @,
                         ![i].source = IF known THEN meta[id].source ELSE @]
    /\ UNCHANGED <<clock, blobs, meta, history, folders, nextId, nextFolder>>

\* addHistoryEntry: now, readHistory, filter and unshift
ViewReadHistory(i) ==
    /\ At(i, "view", "history")
    /\ pending' = [pending EXCEPT
                     ![i].pc = "touch",
                     ![i].now = clock,
                     ![i].list = unshiftEntry(readHistory(history), pending[i].id,
                                              pending[i].filename, pending[i].source, clock)]
    /\ UNCHANGED <<clock, blobs, meta, history, folders, nextId, nextFolder>>

\* addHistoryEntry: kv.get(metaKey) and the parse of its value
ViewGetTouch(i) ==
    /\ At(i, "view", "touch")
    /\ LET id == pending[i].id
           known == id \in DOMAIN meta /\ meta[id] # Corrupt
       IN  pending' = [pending EXCEPT
                         ![i].pc = IF known THEN "put" ELSE "write",
                         ![i].rec = IF known THEN <<meta[id]>> ELSE <<>>]
    /\ UNCHANGED <<clock, blobs, meta, history, folders, nextId, nextFolder>>

\* addHistoryEntry: kv.put(metaKey) of the record it read, touched
ViewPutMeta(i) ==
    /\ At(i, "view", "put")
    /\ meta' = Put(meta, pending[i].id,
                   [pending[i].rec[1] EXCEPT !.lastAccessedAt = pending[i].now,
                                             !.archivedAt = None])
    /\ pending' = [pending EXCEPT ![i].pc = "write"]
    /\ UNCHANGED <<clock, blobs, history, folders, nextId, nextFolder>>

\* addHistoryEntry: writeHistory(kv, filtered)
ViewWriteHistory(i) ==
    /\ At(i, "view", "write")
    /\ history' = pending[i].list
    /\ pending' = [pending EXCEPT ![i].pc = "done"]
    /\ UNCHANGED <<clock, blobs, meta, folders, nextId, nextFolder>>

\* DELETE /api/files/:id, first call: MD_FILES.delete
DeleteBlob(id) ==
    /\ blobs' = Remove(blobs, id)
    /\ pending' = Append(pending,
                         [op |-> "delete", pc |-> "meta", id |-> id, list |-> <<>>,
                          base |-> St, alone |-> Quiet])
    /\ UNCHANGED <<clock, meta, history, folders, nextId, nextFolder>>

\* HISTORY.delete of meta:{id}
DeleteMeta(i) ==
    /\ At(i, "delete", "meta")
    /\ meta' = Remove(meta, pending[i].id)
    /\ pending' = [pending EXCEPT ![i].pc = "history"]
    /\ UNCHANGED <<clock, blobs, history, folders, nextId, nextFolder>>

DeleteReadHistory(i) ==
    /\ At(i, "delete", "history")
    /\ pending' = [pending EXCEPT ![i].pc = "write", ![i].list = readHistory(history)]
    /\ UNCHANGED <<clock, blobs, meta, history, folders, nextId, nextFolder>>

DeleteWriteHistory(i) ==
    /\ At(i, "delete", "write")
    /\ history' = SelectSeq(pending[i].list, LAMBDA e : e.id # pending[i].id)
    /\ pending' = [pending EXCEPT ![i].pc = "done"]
    /\ UNCHANGED <<clock, blobs, meta, folders, nextId, nextFolder>>

\* the keys of kv.list, in key order
RECURSIVE KeyOrder(_)
KeyOrder(S) ==
    IF S = {} THEN <<>>
    ELSE LET k == CHOOSE x \in S : \A y \in S : x <= y
         IN  <<k>> \o KeyOrder(S \ {k})

\* the store writes of runRetention's loop over the records it scanned
RECURSIVE SweepPlan(_, _, _)
SweepPlan(keys, snapshot, now) ==
    IF keys = <<>> THEN <<>>
    ELSE LET id == Head(keys)
             step == IF SweepDeletes(snapshot[id], now)
                     THEN <<[call |-> "deleteMeta", id |-> id], [call |-> "deleteBlob", id |-> id]>>
                     ELSE IF SweepArchives(snapshot[id], now)
                     THEN <<[call |-> "putMeta", id |-> id]>>
                     ELSE <<>>
         IN  step \o SweepPlan(Tail(keys), snapshot, now)

\* a sweep that ends after its scan, the loop skipped
SweepAfter_NoLoop(plan, deletedIds) == IF deletedIds # {} THEN "history" ELSE "done"

\* what follows the scan, or the loop, of a sweep
SweepAfter(plan, deletedIds) ==
    IF plan # <<>> THEN "loop" ELSE IF deletedIds # {} THEN "history" ELSE "done"

\* runRetention: Date.now(), and the kv.list of listAllMeta
SweepStart ==
    /\ LET keys == KeyOrder(DOMAIN meta)
       IN  pending' = Append(pending,
                             [op |-> "sweep", pc |-> IF keys = <<>> THEN "done" ELSE "scan",
                              now |-> clock, keys |-> keys, snapshot |-> <<>>,
                              plan |-> <<>>, deletedIds |-> {}, list |-> <<>>,
                              base |-> St, alone |-> Quiet])
    /\ UNCHANGED <<clock, blobs, meta, history, folders, nextId, nextFolder>>

\* listAllMeta: kv.get of the next key; after the last one, the loop is laid out
SweepGet(i) ==
    /\ At(i, "sweep", "scan")
    /\ LET p == pending[i]
           id == Head(p.keys)
           snapshot == IF id \in DOMAIN meta /\ meta[id] # Corrupt
                       THEN Put(p.snapshot, id, meta[id])
                       ELSE p.snapshot
           plan == SweepPlan(KeyOrder(DOMAIN snapshot), snapshot, p.now)
           deletedIds == {k \in DOMAIN snapshot : SweepDeletes(snapshot[k], p.now)}
       IN  pending' = [pending EXCEPT
                         ![i].keys = Tail(p.keys),
                         ![i].snapshot = snapshot,
                         ![i].plan = IF Tail(p.keys) = <<>> THEN plan ELSE <<>>,
                         ![i].deletedIds = IF Tail(p.keys) = <<>> THEN deletedIds ELSE {},
                         ![i].pc = IF Tail(p.keys) = <<>>
                                   THEN SweepAfter(plan, deletedIds)
                                   ELSE "scan"]
    /\ UNCHANGED <<clock, blobs, meta, history, folders, nextId, nextFolder>>

\* runRetention: the next kv.delete, MD_FILES.delete or kv.put of the loop
SweepWrite(i) ==
    /\ At(i, "sweep", "loop")
    /\ LET p == pending[i]
           w == Head(p.plan)
       IN  /\ meta' = IF w.call = "deleteMeta" THEN Remove(meta, w.id)
                      ELSE IF w.call = "putMeta"
                      THEN Put(meta, w.id, [p.snapshot[w.id] EXCEPT !.archivedAt = clock])
                      ELSE meta
           /\ blobs' = IF w.call = "deleteBlob" THEN Remove(blobs, w.id) ELSE blobs
           /\ pending' = [pending EXCEPT
                             ![i].plan = Tail(p.plan),
                             ![i].pc = SweepAfter(Tail(p.plan), p.deletedIds)]
    /\ UNCHANGED <<clock, history, folders, nextId, nextFolder>>

\* runRetention: readHistory of the clean-up
SweepReadHistory(i) ==
    /\ At(i, "sweep", "history")
    /\ pending' = [pending EXCEPT ![i].pc = "write", ![i].list = readHistory(history)]
    /\ UNCHANGED <<clock, blobs, meta, history, folders, nextId, nextFolder>>

\* runRetention: writeHistory of the list without the deleted ids
SweepWriteHistory(i) ==
    /\ At(i, "sweep", "write")
    /\ history' = SelectSeq(pending[i].list, LAMBDA e : e.id \notin pending[i].deletedIds)
    /\ pending' = [pending EXCEPT ![i].pc = "done"]
    /\ UNCHANGED <<clock, blobs, meta, folders, nextId, nextFolder>>

\* ---------------------------------------------------------------- specifications
\* Files and retention: creation, views, deletes, the listings and the sweep.
Next ==
    \/ Tick(TickStep)
    \/ \E hasFile \in BOOLEAN, name \in {Str_a_md, Str_b_txt} :
          Upload(hasFile, name, 3, MaxFiles)
    \/ \E size \in {0, 5} : Paste(size, Str_empty, MaxFiles)
    \/ \E id \in FileIds : ViewFile(id)
    \/ GetFiles
    \/ \E id \in FileIds : DeleteFile(id)
    \/ GetHistory
    \/ Sweep

Spec == Init /\ [][Next]_vars

\* Every writer of the history list, over uploaded files.
NextHistory ==
    \/ Tick(ARCHIVE_MS)
    \/ Upload(TRUE, Str_a_md, 3, MaxFiles)
    \/ \E id \in FileIds : ViewFile(id)
    \/ \E id \in FileIds, filename \in {Str_blank, Str_x_padded} : RenameFile(id, filename)
    \/ \E id \in FileIds : DeleteFile(id)
    \/ GetHistory
    \/ ClearHistory
    \/ \E id \in FileIds : RemoveHistoryEntry(id)
    \/ Sweep

SpecHistory == Init /\ [][NextHistory]_vars

\* The folder operations, over files that are uploaded, deleted and swept.
NextFolders ==
    \/ Tick(ARCHIVE_MS)
    \/ Upload(TRUE, Str_a_md, 3, MaxFiles)
    \/ \E id \in FileIds : DeleteFile(id)
    \/ Sweep
    \/ GetFolders
    \/ \E name \in {Str_blank, Str_f_padded} : CreateFolder(name)
    \/ \E gid \in FolderIds, name \in {Str_empty, Str_g} : RenameFolder(gid, name)
    \/ \E gid \in FolderIds : DeleteFolder(gid)
    \/ \E gid \in FolderIds, fid \in FileIds : AddFile(gid, fid)
    \/ \E gid \in FolderIds, fid \in FileIds : RemoveFile(gid, fid)
    \/ \E src \in FolderIds, dst \in FolderIds, fid \in FileIds : MoveFile(src, fid, dst)

SpecFolders == Init /\ [][NextFolders]_vars

\* Folders with members, and the three ways a file is deleted: the explicit
\* delete, the cascade of a folder delete and the sweep.
NextCascade ==
    \/ Tick(DELETE_MS)
    \/ Upload(TRUE, Str_a_md, 3, MaxFiles)
    \/ \E id \in FileIds : DeleteFile(id)
    \/ Sweep
    \/ GetFolders
    \/ CreateFolder(Str_f_padded)
    \/ \E gid \in FolderIds : DeleteFolder(gid)
    \/ \E gid \in FolderIds, fid \in FileIds : AddFile(gid, fid)

SpecCascade == Init /\ [][NextCascade]_vars

\* Membership by addFile alone, over files that are uploaded and deleted.
NextAdd ==
    \/ Upload(TRUE, Str_a_md, 3, MaxFiles)
    \/ \E id \in FileIds : DeleteFile(id)
    \/ GetFolders
    \/ CreateFolder(Str_f_padded)
    \/ \E gid \in FolderIds, fid \in FileIds : AddFile(gid, fid)

SpecAdd == Init /\ [][NextAdd]_vars

\* Files put into folders and taken out again while they age and are swept;
\* the clock advances by one and a half archive ages.
NextRemove ==
    \/ Tick(3 * TickStep)
    \/ Upload(TRUE, Str_a_md, 3, MaxFiles)
    \/ Sweep
    \/ CreateFolder(Str_f_padded)
    \/ \E gid \in FolderIds, fid \in FileIds : AddFile(gid, fid)
    \/ \E gid \in FolderIds, fid \in FileIds : RemoveFile(gid, fid)

SpecRemove == Init /\ [][NextRemove]_vars

\* Folders created and renamed under valid and invalid names, with members.
NextNames ==
    \/ Upload(TRUE, Str_a_md, 3, MaxFiles)
    \/ GetFolders
    \/ \E name \in {Str_empty, Str_blank, Str_f_padded} : CreateFolder(name)
    \/ \E gid \in FolderIds, name \in {Str_empty, Str_blank, Str_x_padded, Str_g} :
          RenameFolder(gid, name)
    \/ \E gid \in FolderIds, fid \in FileIds : AddFile(gid, fid)

SpecNames == Init /\ [][NextNames]_vars

\* Archived and fresh files, filed in folders.
NextFrame ==
    \/ Tick(3 * TickStep)
    \/ Upload(TRUE, Str_a_md, 3, MaxFiles)
    \/ Sweep
    \/ CreateFolder(Str_f_padded)
    \/ \E gid \in FolderIds, fid \in FileIds : AddFile(gid, fid)

SpecFrame == Init /\ [][NextFrame]_vars

\* Records as they are found in the namespace: written by the earlier worker
\* (created, no lastAccessedAt), by this one, or carrying no timestamp.
InitLegacy ==
    /\ clock = 0
    /\ blobs = [id \in FileIds |-> 3]
    /\ \E cr, la \in [FileIds -> {None, 0}] :
          meta = [id \in FileIds |->
                    [filename |-> Str_a_md, source |-> "upload", size |-> 3,
                     created |-> cr[id], lastAccessedAt |-> la[id],
                     archivedAt |-> None, folderId |-> NoFolder]]
    /\ history = <<>>
    /\ folders = <<>>
    /\ nextId = MaxFiles + 1
    /\ nextFolder = 1
    /\ pending = <<>>

NextLegacy ==
    \/ Tick(TickStep)
    \/ \E id \in FileIds : ViewFile(id)
    \/ Sweep

SpecLegacy == InitLegacy /\ [][NextLegacy]_vars

\* Creations whose store calls take time, and the sweep.
NextCreate ==
    \/ Tick(ARCHIVE_MS)
    \/ \E hasFile \in BOOLEAN, name \in {Str_a_md, Str_b_txt, Str_empty}, took \in 0..MaxLatency :
          UploadSlow(hasFile, name, 3, MaxFiles, took)
    \/ \E size \in {0, 5}, title \in {Str_g, Str_empty}, took \in 0..MaxLatency :
          PasteSlow(size, title, MaxFiles, took)
    \/ GetFiles
    \/ GetHistory
    \/ Sweep

SpecCreate == Init /\ [][NextCreate]_vars

\* Requests served over stored values that do not parse.
\* every operation on files, folder deletion and the sweep, one at a time;
\* the first file is the one renamed, filed and dropped from the history
NextLifecycle ==
    \/ Tick(ARCHIVE_MS)
    \/ Upload(TRUE, Str_a_md, 3, MaxFiles)
    \/ \E id \in FileIds : ViewFile(id)
    \/ RenameFile(1, Str_x_padded)
    \/ \E id \in FileIds : DeleteFile(id)
    \/ GetHistory
    \/ RemoveHistoryEntry(1)
    \/ Sweep
    \/ CreateFolder(Str_f_padded)
    \/ AddFile(generateFolderId(1), 1)
    \/ DeleteFolder(generateFolderId(1))

SpecLifecycle == Init /\ [][NextLifecycle]_vars

NextCorrupt ==
    \/ Upload(TRUE, Str_a_md, 3, MaxFiles)
    \/ \E id \in FileIds : ViewFile(id)
    \/ \E id \in FileIds : RenameFile(id, Str_g)
    \/ \E id \in FileIds : DeleteFile(id)
    \/ GetFiles
    \/ GetHistory
    \/ GetFolders
    \/ CreateFolder(Str_f_padded)
    \/ Sweep
    \/ CorruptHistory
    \/ CorruptFolders
    \/ \E id \in FileIds : CorruptMeta(id)

SpecCorrupt == Init /\ [][NextCorrupt]_vars

\* One sweep and one view or delete request, their store calls interleaved.
NextSweepRace ==
    \/ pending = <<>> /\ Tick(ARCHIVE_MS)
    \/ pending = <<>> /\ Upload(TRUE, Str_a_md, 3, MaxFiles)
    \/ InFlight("sweep") = 0 /\ SweepStart
    \/ \E i \in 1..Len(pending) : SweepGet(i)
    \/ \E i \in 1..Len(pending) : SweepWrite(i)
    \/ \E i \in 1..Len(pending) : SweepReadHistory(i)
    \/ \E i \in 1..Len(pending) : SweepWriteHistory(i)
    \/ \E id \in FileIds : InFlight("view") + InFlight("delete") = 0 /\ ViewGetBlob(id)
    \/ \E i \in 1..Len(pending) : ViewGetMeta(i)
    \/ \E i \in 1..Len(pending) : ViewReadHistory(i)
    \/ \E i \in 1..Len(pending) : ViewGetTouch(i)
    \/ \E i \in 1..Len(pending) : ViewPutMeta(i)
    \/ \E i \in 1..Len(pending) : ViewWriteHistory(i)
    \/ \E id \in FileIds : InFlight("view") + InFlight("delete") = 0 /\ DeleteBlob(id)
    \/ \E i \in 1..Len(pending) : DeleteMeta(i)
    \/ \E i \in 1..Len(pending) : DeleteReadHistory(i)
    \/ \E i \in 1..Len(pending) : DeleteWriteHistory(i)
    \/ Retire

SpecSweepRace == Init /\ [][NextSweepRace]_vars

\* Two sweeps, the second begun before or after the first has ended.
NextSweeps ==
    \/ pending = <<>> /\ Tick(ARCHIVE_MS)
    \/ pending = <<>> /\ Upload(TRUE, Str_a_md, 3, MaxFiles)
    \/ InFlight("sweep") < 2 /\ SweepStart
    \/ \E i \in 1..Len(pending) : SweepGet(i)
    \/ \E i \in 1..Len(pending) : SweepWrite(i)
    \/ \E i \in 1..Len(pending) : SweepReadHistory(i)
    \/ \E i \in 1..Len(pending) : SweepWriteHistory(i)
    \/ Retire

SpecSweeps == Init /\ [][NextSweeps]_vars

\* Two view requests writing the history, after uploads and clearAll.
NextWriters ==
    \/ pending = <<>> /\ Upload(TRUE, Str_a_md, 3, MaxFiles)
    \/ pending = <<>> /\ ClearHistory
    \/ \E id \in FileIds : InFlight("view") < 2 /\ ViewGetBlob(id)
    \/ \E i \in 1..Len(pending) : ViewGetMeta(i)
    \/ \E i \in 1..Len(pending) : ViewReadHistory(i)
    \/ \E i \in 1..Len(pending) : ViewGetTouch(i)
    \/ \E i \in 1..Len(pending) : ViewPutMeta(i)
    \/ \E i \in 1..Len(pending) : ViewWriteHistory(i)
    \/ Retire

SpecWriters == Init /\ [][NextWriters]_vars

\* A folder delete in two steps, with addFile, uploads and the sweep served
\* between its read of the folder list and its writes.
NextRace ==
    \/ Tick(ARCHIVE_MS)
    \/ Upload(TRUE, Str_a_md, 3, MaxFiles)
    \/ Sweep
    \/ CreateFolder(Str_f_padded)
    \/ \E gid \in FolderIds, fid \in FileIds : AddFile(gid, fid)
    \/ \E gid \in FolderIds : DeleteFolderRead(gid)
    \/ DeleteFolderWrite

SpecRace == Init /\ [][NextRace]_vars

\* the clock leaves a record written now the time to reach the archive age
CanAge == clock + ARCHIVE_MS <= MaxTicks * TickStep

\* The cron trigger: sweeps run one after another, call by call, as time
\* advances; uploads and views are served between the sweeps.
NextScheduled ==
    \/ Tick(ARCHIVE_MS)
    \/ pending = <<>> /\ CanAge /\ Upload(TRUE, Str_a_md, 3, MaxFiles)
    \/ \E id \in FileIds : pending = <<>> /\ CanAge /\ ViewFile(id)
    \/ pending = <<>> /\ SweepStart
    \/ \E i \in 1..Len(pending) : SweepGet(i)
    \/ \E i \in 1..Len(pending) : SweepWrite(i)
    \/ \E i \in 1..Len(pending) : SweepReadHistory(i)
    \/ \E i \in 1..Len(pending) : SweepWriteHistory(i)
    \/ Retire

\* time advances, the trigger fires again once a run has ended, and the store
\* call that a run kept alive by ctx.waitUntil is waiting for returns
FairScheduled ==
    /\ WF_vars(Tick(ARCHIVE_MS))
    /\ WF_vars(pending = <<>> /\ SweepStart)
    /\ WF_vars(\E i \in 1..Len(pending) :
                   SweepGet(i) \/ SweepWrite(i) \/ SweepReadHistory(i) \/ SweepWriteHistory(i))
    /\ WF_vars(Retire)

SpecScheduled == Init /\ [][NextScheduled]_vars /\ FairScheduled

\* Many files: uploads up to CapFiles, and views of the first file.
NextCap ==
    \/ Upload(TRUE, Str_a_md, 3, CapFiles)
    \/ ViewFile(1)
    \/ GetHistory

SpecCap == Init /\ [][NextCap]_vars

\* ---------------------------------------------------------------- properties
\* the age of a record as the retention policy defines it
AgeOf(rec, now) == now - (IF rec.lastAccessedAt # None THEN rec.lastAccessedAt ELSE rec.created)

Unfiled(rec) == rec.folderId = NoFolder

Archived(rec) == rec.archivedAt # None

Count(s, x) == Cardinality({i \in 1..Len(s) : s[i] = x})

\* s's elements all occur in t, in the same order
RECURSIVE IsSubSeq(_, _)
IsSubSeq(s, t) ==
    IF s = <<>> THEN TRUE
    ELSE IF t = <<>> THEN FALSE
    ELSE IF Head(s) = Head(t) THEN IsSubSeq(Tail(s), Tail(t))
    ELSE IsSubSeq(s, Tail(t))

\* C1: the stored history list never holds more than 100 entries (it is
\* truncated to the 100 most recent after every insertion).
C1_HistoryCap == Len(history) <= HistoryMax

\* C2: the history list holds at most one entry per file id, and a view of any
\* id leaves exactly one entry for it, at the front, stamped with the time of
\* that view.
C2_HistoryDedup ==
    /\ \A i, j \in 1..Len(history) : history[i].id = history[j].id => i = j
    /\ \A id \in FileIds :
          LET r == viewFile(St, id, clock)
          IN  r.ok =>
                /\ r.st.history[1].id = id
                /\ r.st.history[1].viewedAt = clock
                /\ Cardinality({i \in 1..Len(r.st.history) : r.st.history[i].id = id}) = 1

\* a file viewed again after its creation is at the front, before another entry
C2_Witness ==
    /\ Len(history) >= 2
    /\ history[1].id \in DOMAIN meta
    /\ history[1].viewedAt > meta[history[1].id].created

\* C3: a successful view of a file whose metadata carries archivedAt leaves the
\* metadata without archivedAt and with lastAccessedAt equal to the time of the
\* view, and the file is in the file listing and in listView again.
C3_UnarchiveOnView ==
    \A id \in DOMAIN meta :
       LET r == viewFile(St, id, clock)
       IN  (Archived(meta[id]) /\ r.ok) =>
             /\ id \in DOMAIN r.st.meta
             /\ ~Archived(r.st.meta[id])
             /\ r.st.meta[id].lastAccessedAt = clock
             /\ id \in FileListing(r.st)
             /\ id \in Ids(ListView(r.st))

\* an archived file, hidden from both listings, whose view succeeds at a later time
C3_Witness ==
    \E id \in DOMAIN meta :
       /\ Archived(meta[id])
       /\ meta[id].archivedAt < clock
       /\ id \notin FileListing(St)
       /\ viewFile(St, id, clock).ok
       /\ viewFile(St, id, clock).st.meta[id].lastAccessedAt > meta[id].lastAccessedAt

\* C4: a second sweep at the same clock reading changes nothing the first one
\* left, and a sweep keeps the archivedAt of every record that already has one.
C4_RetentionIdempotent ==
    LET r1 == runRetention(St, clock)
        r2 == runRetention(r1, clock)
    IN  /\ r2 = r1
        /\ \A id \in DOMAIN meta \cap DOMAIN r1.meta :
              Archived(meta[id]) => r1.meta[id].archivedAt = meta[id].archivedAt

\* a sweep that deletes one file and meets another archived at an earlier time
C4_Witness ==
    LET r1 == runRetention(St, clock)
    IN  /\ \E id \in DOMAIN meta : id \notin DOMAIN r1.meta
        /\ \E id \in DOMAIN r1.meta : Archived(meta[id]) /\ meta[id].archivedAt < clock

\* C5: the sweep neither archives nor deletes a file whose folderId names an
\* existing folder that lists the file, however old the file is.
C5_Exemption ==
    \A id \in DOMAIN meta :
       LET gid == meta[id].folderId
           r == runRetention(St, clock)
       IN  (gid # NoFolder /\ HasFolder(folders, gid)
              /\ id \in Elems(FolderOf(folders, gid).fileIds)) =>
             /\ id \in DOMAIN r.meta
             /\ r.meta[id] = meta[id]
             /\ id \in DOMAIN blobs => id \in DOMAIN r.blobs

C7_DeleteStep ==
    LET r == runRetention(St, clock)
        gone == DOMAIN meta \ DOMAIN r.meta
    IN  /\ \A id \in DOMAIN meta :
              (Unfiled(meta[id]) /\ AgeOf(meta[id], clock) >= DELETE_MS) =>
                 id \notin DOMAIN r.meta /\ id \notin DOMAIN r.blobs
        /\ Ids(r.history) \cap gone = {}
        /\ IsSubSeq(r.history, history)
        /\ \A i \in 1..Len(history) : history[i].id \notin gone => history[i] \in Elems(r.history)

\* an archived file of age >= DELETE_AGE with a history entry, beside an entry that stays
C7_Witness ==
    /\ \E id \in DOMAIN meta \cap DOMAIN blobs :
          /\ Archived(meta[id])
          /\ AgeOf(meta[id], clock) >= DELETE_MS
          /\ id \in Ids(history)
    /\ Len(runRetention(St, clock).history) >= 1

\* C8: listView returns exactly the stored entries whose id has a metadata
\* record without archivedAt, in the stored order.
C8_ListView ==
    LET v == ListView(St)
        shown(e) == e.id \in DOMAIN meta /\ ~Archived(meta[e.id])
    IN  /\ \A i \in 1..Len(v) : shown(v[i])
        /\ \A j \in 1..Len(history) : shown(history[j]) => Count(v, history[j]) = 1
        /\ IsSubSeq(v, history)

\* a history with an entry of an archived file behind an entry that is shown
C8_Witness ==
    /\ Len(ListView(St)) >= 1
    /\ \E j \in 2..Len(history) :
          history[j].id \in DOMAIN meta /\ Archived(meta[history[j].id])

\* C9: a file with archivedAt is in neither the file listing nor listView, and
\* every file with a metadata record and no archivedAt is in the file listing.
C9_ArchivedHidden ==
    \A id \in DOMAIN meta :
       IF Archived(meta[id])
       THEN id \notin FileListing(St) /\ id \notin Ids(ListView(St))
       ELSE id \in FileListing(St)

\* an archived file that still has its history entry, and an active file
C9_Witness ==
    /\ \E id \in DOMAIN meta : Archived(meta[id]) /\ id \in Ids(history)
    /\ \E id \in DOMAIN meta : ~Archived(meta[id])

\* every file id is listed by at most one folder, once, and that folder is the
\* file's folderId; a file no folder lists has no folderId
OneFolder(st) ==
    LET fs == st.folders
        holders(fid) == {i \in 1..Len(fs) : fid \in Elems(fs[i].fileIds)}
        listed == UNION {Elems(fs[i].fileIds) : i \in 1..Len(fs)}
    IN  \A fid \in listed \cup DOMAIN st.meta :
           /\ Cardinality(holders(fid)) <= 1
           /\ \A i \in holders(fid) :
                 /\ Count(fs[i].fileIds, fid) = 1
                 /\ fid \in DOMAIN st.meta
                 /\ st.meta[fid].folderId = fs[i].id
           /\ (holders(fid) = {} /\ fid \in DOMAIN st.meta) => Unfiled(st.meta[fid])

ExistingFolders == {folders[i].id : i \in 1..Len(folders)}

\* C10: addFile, move and removeFile, applied to existing folders and an
\* existing file, keep every file in at most one folder, listed once there,
\* with folderId naming that folder.
C10_AtMostOneFolder ==
    OneFolder(St) =>
       \A fid \in DOMAIN meta, gid \in ExistingFolders, dst \in ExistingFolders :
          /\ OneFolder(addFile(St, gid, fid).st)
          /\ OneFolder(removeFile(St, gid, fid).st)
          /\ OneFolder(moveFile(St, gid, fid, dst).st)

\* C11: the delete of an existing folder removes the blob, the metadata record
\* and the history entry of every id in its fileIds and then the folder, which
\* the folder listing no longer shows; the delete of an unknown folder id is
\* answered with 404 and changes no store.
C11_FolderDeleteCascade ==
    \A gid \in FolderIds :
       LET r == deleteFolder(St, gid)
       IN  IF gid \in ExistingFolders
           THEN /\ r.ok
                /\ \A fid \in Elems(FolderOf(folders, gid).fileIds) :
                      /\ fid \notin DOMAIN r.st.blobs
                      /\ fid \notin DOMAIN r.st.meta
                      /\ fid \notin Ids(r.st.history)
                /\ ~HasFolder(r.st.folders, gid)
                /\ gid \notin Ids(FolderListing(r.st))
           ELSE ~r.ok /\ r.error = 404 /\ r.st = St

\* a folder with a member that has its blob, its metadata and a history entry,
\* beside a folder id that is unknown
C11_Witness ==
    /\ \E gid \in ExistingFolders :
          \E fid \in Elems(FolderOf(folders, gid).fileIds) :
             fid \in DOMAIN blobs /\ fid \in DOMAIN meta /\ fid \in Ids(history)
    /\ \E gid \in FolderIds : gid \notin ExistingFolders /\ ~deleteFolder(St, gid).ok

\* the ids of files that were created and have neither blob nor metadata now
Gone == {id \in 1..(nextId - 1) : id \notin DOMAIN blobs /\ id \notin DOMAIN meta}

\* C12: once the blob and the metadata record of a file are removed, no
\* request and no sweep leaves a blob or a metadata record for its id, and a
\* view or a rename of the id is answered with 404.
C12_DeletionIrreversible ==
    LET gone == Gone
        StaysGone(st) == \A id \in gone : id \notin DOMAIN st.blobs /\ id \notin DOMAIN st.meta
    IN  gone # {} =>
          /\ \A id \in gone :
                /\ ~viewFile(St, id, clock).ok
                /\ viewFile(St, id, clock).error = 404
                /\ ~renameFile(St, id, Str_x_padded).ok
                /\ renameFile(St, id, Str_x_padded).error = 404
          /\ \A id \in FileIds :
                /\ StaysGone(viewFile(St, id, clock).st)
                /\ StaysGone(renameFile(St, id, Str_x_padded).st)
                /\ StaysGone(deleteFile(St, id).st)
                /\ StaysGone(removeHistoryEntry(St, id).st)
          /\ StaysGone(clearHistory(St).st)
          /\ StaysGone(runRetention(St, clock))
          /\ StaysGone(upload(St, TRUE, Str_a_md, 3, nextId, clock).st)
          /\ StaysGone(paste(St, 5, Str_empty, nextId, clock).st)
          /\ StaysGone(createFolder(St, Str_g, generateFolderId(nextFolder), clock).st)
          /\ \A gid \in FolderIds :
                /\ StaysGone(renameFolder(St, gid, Str_g).st)
                /\ StaysGone(deleteFolder(St, gid).st)
                /\ \A id \in FileIds :
                      /\ StaysGone(addFile(St, gid, id).st)
                      /\ StaysGone(removeFile(St, gid, id).st)
                      /\ \A dst \in FolderIds : StaysGone(moveFile(St, gid, id, dst).st)

\* a deleted file that a folder still lists, beside a file that exists, with
\* the rename of the deleted id rejected
C12_Witness ==
    \E id \in Gone :
       /\ \E i \in 1..Len(folders) : id \in Elems(folders[i].fileIds)
       /\ DOMAIN meta # {}
       /\ ~renameFile(St, id, Str_x_padded).ok

\* C13: the delete of a file id removes its blob, its metadata record and its
\* history entry, and leaves the blob, the metadata and the history entry of
\* every other file as they were, the remaining entries in their order.
C13_ExplicitDelete ==
    \A id \in FileIds :
       LET r == deleteFile(St, id)
       IN  /\ r.ok
           /\ id \notin DOMAIN r.st.blobs
           /\ id \notin DOMAIN r.st.meta
           /\ id \notin Ids(r.st.history)
           /\ DOMAIN r.st.blobs = DOMAIN blobs \ {id}
           /\ DOMAIN r.st.meta = DOMAIN meta \ {id}
           /\ \A o \in DOMAIN r.st.blobs : r.st.blobs[o] = blobs[o]
           /\ \A o \in DOMAIN r.st.meta : r.st.meta[o] = meta[o]
           /\ IsSubSeq(r.st.history, history)
           /\ \A j \in 1..Len(history) :
                 history[j].id # id => Count(r.st.history, history[j]) = 1

\* a file with blob, metadata and the first history entry, ahead of the entry
\* of another file that has its blob and metadata
C13_Witness ==
    /\ Len(history) >= 2
    /\ history[1].id \in DOMAIN blobs \cap DOMAIN meta
    /\ history[2].id \in DOMAIN blobs \cap DOMAIN meta
    /\ Len(deleteFile(St, history[1].id).st.history) = Len(history) - 1

\* C14: with no request in progress, every id in every folder's fileIds has a
\* metadata record: a file delete and a sweep that deletes a member also take
\* its id out of the folder's fileIds.
C14_MembersExist ==
    pending = <<>> =>
       \A i \in 1..Len(folders) : Elems(folders[i].fileIds) \subseteq DOMAIN meta

\* C15: the sweep clears the folderId of a record that names a folder absent
\* from the folder list and ages the record in the same pass: deleted at age
\* >= DELETE_AGE, archived at age >= ARCHIVE_AGE.
C15_StaleFolderRef ==
    \A id \in DOMAIN meta :
       LET rec == meta[id]
           r == runRetention(St, clock)
       IN  (rec.folderId # NoFolder /\ ~HasFolder(folders, rec.folderId)) =>
             IF AgeOf(rec, clock) >= DELETE_MS
             THEN id \notin DOMAIN r.meta /\ id \notin DOMAIN r.blobs
             ELSE /\ id \in DOMAIN r.meta
                  /\ Unfiled(r.meta[id])
                  /\ AgeOf(rec, clock) >= ARCHIVE_MS => Archived(r.meta[id])

\* C16: addFile fails with NotFound and changes nothing when the folder is unknown or
\* the file has no metadata record; otherwise the target folder's fileIds gets
\* the file id appended, every other folder's fileIds loses it and keeps its
\* other ids in order, and the file's folderId is the target folder.
C16_AddFile ==
    \A gid \in FolderIds, fid \in FileIds :
       LET r == addFile(St, gid, fid)
           fs == r.st.folders
       IN  IF gid \notin ExistingFolders \/ fid \notin DOMAIN meta
           THEN ~r.ok /\ r.error = 404 /\ r.st = St
           ELSE /\ r.ok
                /\ Len(fs) = Len(folders)
                /\ \A i \in 1..Len(fs) :
                      /\ fs[i].id = folders[i].id
                      /\ IF fs[i].id = gid
                         THEN /\ Len(fs[i].fileIds) = Len(folders[i].fileIds) + 1
                              /\ fs[i].fileIds[Len(fs[i].fileIds)] = fid
                              /\ SubSeq(fs[i].fileIds, 1, Len(folders[i].fileIds))
                                    = folders[i].fileIds
                         ELSE /\ fid \notin Elems(fs[i].fileIds)
                              /\ IsSubSeq(fs[i].fileIds, folders[i].fileIds)
                              /\ Elems(fs[i].fileIds) = Elems(folders[i].fileIds) \ {fid}
                /\ r.st.meta[fid].folderId = gid

\* a file with metadata listed by one folder, beside another file in it,
\* added to a second folder; and a listed id without metadata
C16_Witness ==
    /\ \E i, j \in 1..Len(folders) :
          /\ i # j
          /\ \E fid \in DOMAIN meta :
                /\ fid \in Elems(folders[i].fileIds)
                /\ Len(folders[i].fileIds) >= 2
                /\ addFile(St, folders[j].id, fid).ok
    /\ \E i \in 1..Len(folders) : \E fid \in Elems(folders[i].fileIds) :
          fid \notin DOMAIN meta /\ ~addFile(St, folders[i].id, fid).ok

\* C17: move fails with NotFound when either folder is unknown; otherwise the file id
\* is gone from the source folder, is listed exactly once by the target
\* folder, the file's folderId is the target, and the same move applied again
\* changes nothing.
C17_Move ==
    \A src \in FolderIds, dst \in FolderIds, fid \in FileIds :
       LET r == moveFile(St, src, fid, dst)
           fs == r.st.folders
       IN  IF src \notin ExistingFolders \/ dst \notin ExistingFolders
           THEN ~r.ok /\ r.error = 404
           ELSE /\ r.ok
                /\ src # dst => fid \notin Elems(FolderOf(fs, src).fileIds)
                /\ Count(FolderOf(fs, dst).fileIds, fid) = 1
                /\ fid \in DOMAIN r.st.meta => r.st.meta[fid].folderId = dst
                /\ moveFile(r.st, src, fid, dst) = r

\* C18: removeFile on an existing folder succeeds, also for an id without
\* metadata; the folder no longer lists the id, the file's folderId is cleared
\* and its other metadata fields, every blob and the history are unchanged, so
\* that a sweep right after it ages the file by its existing lastAccessedAt.
C18_RemoveFile ==
    \A gid \in ExistingFolders, fid \in FileIds :
       LET r == removeFile(St, gid, fid)
           swept == runRetention(r.st, clock)
       IN  /\ r.ok
           /\ fid \notin Elems(FolderOf(r.st.folders, gid).fileIds)
           /\ r.st.blobs = blobs
           /\ r.st.history = history
           /\ DOMAIN r.st.meta = DOMAIN meta
           /\ fid \in DOMAIN meta =>
                 /\ r.st.meta[fid] = [meta[fid] EXCEPT !.folderId = NoFolder]
                 /\ AgeOf(meta[fid], clock) >= DELETE_MS <=> fid \notin DOMAIN swept.meta
                 /\ (fid \in DOMAIN swept.meta /\ AgeOf(meta[fid], clock) >= ARCHIVE_MS) =>
                       Archived(swept.meta[fid])
                 /\ (fid \in DOMAIN swept.meta /\ AgeOf(meta[fid], clock) < ARCHIVE_MS) =>
                       swept.meta[fid] = r.st.meta[fid]

\* a folder member past the archive age and not archived, taken out of its
\* folder; and an id without metadata, whose removal succeeds
C18_Witness ==
    \E gid \in ExistingFolders :
       /\ \E fid \in Elems(FolderOf(folders, gid).fileIds) \cap DOMAIN meta :
             /\ meta[fid].folderId = gid
             /\ AgeOf(meta[fid], clock) >= ARCHIVE_MS
             /\ ~Archived(meta[fid])
             /\ Unfiled(removeFile(St, gid, fid).st.meta[fid])
       /\ \E fid \in FileIds : fid \notin DOMAIN meta /\ removeFile(St, gid, fid).ok

\* the names a folder request may carry: none or empty, blanks only, padded, plain
FolderNames == {Str_empty, Str_blank, Str_f_padded, Str_x_padded, Str_g}

Blank(name) == \A i \in 1..Len(name) : IsSpace(name[i])

\* t is name without its leading and trailing blanks
IsTrimOf(t, name) ==
    /\ t # <<>>
    /\ ~IsSpace(t[1]) /\ ~IsSpace(t[Len(t)])
    /\ \E i \in 1..Len(name) :
          /\ i + Len(t) - 1 <= Len(name)
          /\ SubSeq(name, i, i + Len(t) - 1) = t
          /\ \A k \in 1..Len(name) : (k < i \/ k > i + Len(t) - 1) => IsSpace(name[k])

\* C19: a folder create with no name, an empty name or a name of blanks fails
\* with ValidationFailed and changes nothing; any other name, used before or
\* not, appends one folder with the trimmed name, no members and an id of the
\* folder form that no existing folder has, and leaves the other folders alone.
C19_FolderCreate ==
    \A name \in FolderNames :
       LET r == createFolder(St, name, generateFolderId(nextFolder), clock)
           fs == r.st.folders
       IN  IF Blank(name)
           THEN ~r.ok /\ r.error = 400 /\ r.st = St
           ELSE /\ r.ok
                /\ Len(fs) = Len(folders) + 1
                /\ SubSeq(fs, 1, Len(folders)) = folders
                /\ IsTrimOf(fs[Len(fs)].name, name)
                /\ fs[Len(fs)].fileIds = <<>>
                /\ fs[Len(fs)].id \notin ExistingFolders
                /\ Head(fs[Len(fs)].id) = "f"
                /\ r.st.meta = meta

\* a folder with a member, whose name a padded name equals once trimmed, with
\* room for another folder
C19_Witness ==
    /\ nextFolder <= MaxFolders
    /\ \E i \in 1..Len(folders) :
          /\ folders[i].name = <<"f">>
          /\ folders[i].fileIds # <<>>
    /\ createFolder(St, Str_f_padded, generateFolderId(nextFolder), clock).ok

\* C20: a folder rename fails with ValidationFailed on an empty or blank name
\* and with NotFound on an unknown folder id, changing nothing; otherwise it
\* sets that folder's name to the trimmed name and changes no other field, no
\* other folder and no file metadata.
C20_FolderRename ==
    \A gid \in FolderIds \cup {generateFolderId(nextFolder)}, name \in FolderNames :
       LET r == renameFolder(St, gid, name)
           fs == r.st.folders
       IN  IF Blank(name)
           THEN ~r.ok /\ r.error = 400 /\ r.st = St
           ELSE IF gid \notin ExistingFolders
           THEN ~r.ok /\ r.error = 404 /\ r.st = St
           ELSE /\ r.ok
                /\ Len(fs) = Len(folders)
                /\ \A i \in 1..Len(fs) :
                      IF folders[i].id = gid
                      THEN /\ IsTrimOf(fs[i].name, name)
                           /\ fs[i] = [folders[i] EXCEPT !.name = fs[i].name]
                      ELSE fs[i] = folders[i]
                /\ r.st.meta = meta
                /\ r.st.blobs = blobs
                /\ r.st.history = history

\* two folders, one with a member whose metadata names it, the other under a
\* different name
C20_Witness ==
    /\ Len(folders) >= 2
    /\ folders[1].name # folders[2].name
    /\ \E fid \in DOMAIN meta :
          fid \in Elems(folders[1].fileIds) /\ meta[fid].folderId = folders[1].id
    /\ renameFolder(St, folders[1].id, Str_x_padded).ok

\* the members of fileIds that have a metadata record in m, in fileIds order
RECURSIVE Resolved(_, _)
Resolved(fileIds, m) ==
    IF fileIds = <<>> THEN <<>>
    ELSE IF Head(fileIds) \in DOMAIN m
         THEN <<Head(fileIds)>> \o Resolved(Tail(fileIds), m)
         ELSE Resolved(Tail(fileIds), m)

\* C21: the folder listing returns every stored folder in order, each with the
\* filename, source and size of exactly the member ids that have a metadata
\* record, in fileIds order; it writes nothing, so the dangling ids stay in the
\* stored fileIds.
C21_Listed ==
    LET v == FolderListing(St)
    IN  /\ Len(v) = Len(folders)
        /\ \A i \in 1..Len(v) :
              LET ids == Resolved(folders[i].fileIds, meta)
              IN  /\ v[i].id = folders[i].id
                  /\ v[i].name = folders[i].name
                  /\ Len(v[i].files) = Len(ids)
                  /\ \A j \in 1..Len(ids) :
                        /\ v[i].files[j].id = ids[j]
                        /\ v[i].files[j].filename = meta[ids[j]].filename
                        /\ v[i].files[j].source = meta[ids[j]].source
                        /\ v[i].files[j].size = meta[ids[j]].size

C21_FolderList ==
    /\ []C21_Listed
    /\ [][GetFolders => UNCHANGED <<blobs, meta, history, folders>>]_vars

\* a folder lists a member without metadata next to one that has its record
C21_Witness ==
    \E i \in 1..Len(folders) :
        /\ \E fid \in Elems(folders[i].fileIds) : fid \notin DOMAIN meta
        /\ \E fid \in Elems(folders[i].fileIds) : fid \in DOMAIN meta

\* C22: removeEntry(id) and clearAll() write the history list only: removeEntry
\* takes out exactly the entry for id and keeps the order of the others (the
\* list stays as it is when id has no entry), clearAll leaves the empty list;
\* blobs, metadata records and the folder list stay as they were.
C22_HistoryOnly ==
    /\ \A id \in FileIds :
          LET r == removeHistoryEntry(St, id)
              at == {k \in 1..Len(history) : history[k].id = id}
          IN  /\ r.ok
              /\ r.st.blobs = blobs /\ r.st.meta = meta /\ r.st.folders = folders
              /\ at = {} => r.st.history = history
              /\ \A k \in at :
                    r.st.history = SubSeq(history, 1, k - 1) \o SubSeq(history, k + 1, Len(history))
    /\ LET r == clearHistory(St)
       IN  /\ r.ok
           /\ r.st.history = <<>>
           /\ r.st.blobs = blobs /\ r.st.meta = meta /\ r.st.folders = folders

\* two stored files have an entry each, one of them archived
C22_Witness ==
    /\ Len(history) >= 2
    /\ \A k \in 1..2 : history[k].id \in DOMAIN meta
    /\ \E k \in 1..2 : Archived(meta[history[k].id])

\* every metadata record of St is in st with its retention fields as they were
SameClocks(st) ==
    \A id \in DOMAIN meta :
        /\ id \in DOMAIN st.meta
        /\ st.meta[id].lastAccessedAt = meta[id].lastAccessedAt
        /\ st.meta[id].archivedAt = meta[id].archivedAt

\* C23: only a view resets the retention clock or brings a file back: file
\* rename, folder create, rename, addFile, removeFile and move, removeEntry and
\* clearAll leave lastAccessedAt and archivedAt of every record as they were,
\* whether they succeed or are refused; the three listings write nothing.
C23_Stored ==
    /\ \A id \in FileIds, filename \in {Str_blank, Str_x_padded, Str_g} :
          SameClocks(renameFile(St, id, filename).st)
    /\ \A name \in {Str_blank, Str_f_padded} :
          SameClocks(createFolder(St, name, generateFolderId(nextFolder), clock).st)
    /\ \A gid \in FolderIds :
          /\ \A name \in {Str_blank, Str_x_padded} : SameClocks(renameFolder(St, gid, name).st)
          /\ \A fid \in FileIds :
                /\ SameClocks(addFile(St, gid, fid).st)
                /\ SameClocks(removeFile(St, gid, fid).st)
                /\ \A dst \in FolderIds : SameClocks(moveFile(St, gid, fid, dst).st)
    /\ \A id \in FileIds : SameClocks(removeHistoryEntry(St, id).st)
    /\ SameClocks(clearHistory(St).st)

C23_OnlyViewResets ==
    /\ []C23_Stored
    /\ [][GetFiles \/ GetHistory \/ GetFolders => UNCHANGED <<blobs, meta, history, folders>>]_vars

\* an archived file in a folder, with its history entry, next to a fresh file
C23_Witness ==
    /\ \E id \in DOMAIN meta :
          /\ Archived(meta[id])
          /\ HasFolder(folders, meta[id].folderId)
          /\ id \in Ids(history)
    /\ \E id \in DOMAIN meta : ~Archived(meta[id]) /\ meta[id].lastAccessedAt = clock

\* C29: the sweep writes nothing for a record whose folderId names an existing
\* folder: the record, with the archivedAt it may have got before it was
\* filed, and its blob are after the sweep what they were before it.
C29_ExemptUntouched ==
    LET swept == runRetention(St, clock)
    IN  \A id \in DOMAIN meta :
            HasFolder(readFolders(folders), meta[id].folderId) =>
                /\ id \in DOMAIN swept.meta
                /\ swept.meta[id] = meta[id]
                /\ id \in DOMAIN swept.blobs

\* what the sweep does to a record, given the time its age is counted from
AgedFrom(id, ref, swept) ==
    LET age == clock - ref
    IN  /\ age >= DELETE_MS => id \notin DOMAIN swept.meta /\ id \notin DOMAIN swept.blobs
        /\ age < DELETE_MS =>
              /\ id \in DOMAIN swept.blobs
              /\ id \in DOMAIN swept.meta
              /\ swept.meta[id] =
                    IF age >= ARCHIVE_MS /\ ~Archived(meta[id])
                    THEN [meta[id] EXCEPT !.archivedAt = clock]
                    ELSE meta[id]

\* C30: the sweep counts a record's age from lastAccessedAt when the record
\* has one, whatever created says, and from created otherwise; a record with
\* neither is skipped: it is neither archived nor deleted and stays as it is.
C30_ReferenceTime ==
    LET swept == runRetention(St, clock)
    IN  \A id \in DOMAIN meta :
            IF meta[id].lastAccessedAt # None THEN AgedFrom(id, meta[id].lastAccessedAt, swept)
            ELSE IF meta[id].created # None THEN AgedFrom(id, meta[id].created, swept)
            ELSE /\ id \in DOMAIN swept.meta /\ swept.meta[id] = meta[id]
                 /\ id \in DOMAIN swept.blobs

\* a record viewed after its creation, old by created and young by
\* lastAccessedAt, next to a record that has no timestamp
C30_Witness ==
    /\ \E id \in DOMAIN meta :
          /\ meta[id].created # None /\ meta[id].lastAccessedAt # None
          /\ clock - meta[id].created >= DELETE_MS
          /\ clock - meta[id].lastAccessedAt < ARCHIVE_MS
    /\ \E id \in DOMAIN meta : meta[id].created = None /\ meta[id].lastAccessedAt = None

\* C27: a view recorded for an id whose metadata record is missing or does
\* not parse still puts the entry at the front of the history list (before the
\* other entries, a list that does not parse counting as empty), creates no
\* metadata record, leaves the record that does not parse as it is, and the
\* view request of such a file is answered without an error.
C27_ViewWithoutMeta ==
    \A id \in FileIds :
        (id \notin DOMAIN meta \/ meta[id] = Corrupt) =>
            LET r == addHistoryEntry(St, id, Str_a_md, "upload", clock)
                others == SelectSeq(readHistory(history), LAMBDA e : e.id # id)
            IN  /\ Len(r.history) = Len(others) + 1
                /\ r.history[1].id = id
                /\ r.history[1].viewedAt = clock
                /\ Tail(r.history) = others
                /\ r.meta = meta
                /\ r.blobs = blobs
                /\ r.folders = folders
                /\ id \in DOMAIN blobs =>
                      LET v == viewFile(St, id, clock)
                      IN  /\ v.ok
                          /\ v.st.meta = meta
                          /\ v.st.history[1] = [id |-> id, filename |-> DefaultName(id),
                                                 source |-> "upload", viewedAt |-> clock]

\* a stored file whose record does not parse and whose entry is in the
\* history behind another one, and an id without any record
C27_Witness ==
    /\ history # <<Corrupt>>
    /\ Len(history) >= 2
    /\ \E id \in DOMAIN meta :
          /\ meta[id] = Corrupt
          /\ id \in DOMAIN blobs
          /\ history[2].id = id

\* the stores with every value that does not parse taken away
Parsed(st) ==
    [st EXCEPT !.meta = listAllMeta(@),
               !.history = readHistory(@),
               !.folders = readFolders(@)]

\* the answer of a handler: its status, not the stores it leaves
Answer(r) == IF r.ok THEN 200 ELSE r.error

\* C28: a stored history list, folder list or metadata record that does not
\* parse counts as absent in every operation: the listings, the view, the file
\* rename, the folder operations and the sweep answer as they would if the
\* value were not there, and none of them fails with an exception.
C28_CorruptionNotFatal ==
    LET clean == Parsed(St)
    IN  /\ FileListing(St) = FileListing(clean)
        /\ ListView(St) = ListView(clean)
        /\ FolderListing(St) = FolderListing(clean)
        /\ runRetention(St, clock).blobs = runRetention(clean, clock).blobs
        /\ \A id \in FileIds :
              /\ Answer(viewFile(St, id, clock)) = Answer(viewFile(clean, id, clock))
              /\ Answer(renameFile(St, id, Str_g)) = Answer(renameFile(clean, id, Str_g))
              /\ Answer(renameFile(St, id, Str_g)) # 500
        /\ \A gid \in FolderIds :
              /\ Answer(renameFolder(St, gid, Str_g)) = Answer(renameFolder(clean, gid, Str_g))
              /\ Answer(deleteFolder(St, gid)) = Answer(deleteFolder(clean, gid))
        /\ createFolder(St, Str_g, generateFolderId(nextFolder), clock).st.folders
              = createFolder(clean, Str_g, generateFolderId(nextFolder), clock).st.folders

\* the stores a run leaves when its store calls are not interleaved with others
Outcome(p) ==
    IF p.op = "view" THEN viewFile(p.base, p.id, p.now).st
    ELSE IF p.op = "delete" THEN deleteFile(p.base, p.id).st
    ELSE runRetention(p.base, p.now)

\* the runs in pending have ended, and each began after the one before ended
Serial == Quiet /\ \A k \in 1..Len(pending) : pending[k].alone

\* the runs in pending have ended, the second begun before the first ended
Overlapped == Quiet /\ Len(pending) = 2 /\ ~pending[2].alone

\* served one after the other, the runs leave what the handlers leave
SerialOutcome ==
    (Serial /\ pending # <<>>) =>
        /\ St = Outcome(pending[Len(pending)])
        /\ \A k \in 1..Len(pending) - 1 : pending[k + 1].base = Outcome(pending[k])

\* C24: a sweep and a view or an explicit delete of the same file, their store
\* calls interleaved in any order, leave the file live (blob and metadata
\* record) or gone (neither) once both have ended: never a metadata record
\* without its blob, never a blob without its record.
C24_SweepRaceSafe ==
    Quiet => \A id \in FileIds : id \in DOMAIN blobs <=> id \in DOMAIN meta

\* C25: two sweeps whose store calls interleave, with no request served
\* meanwhile, end with the blobs, the metadata records and the history list
\* that one sweep leaves.
C25_SweepsReentrant ==
    (Quiet /\ pending # <<>>) =>
        LET single == Outcome(pending[1])
        IN  /\ blobs = single.blobs
            /\ meta = single.meta
            /\ history = single.history

\* C26: the history is read whole and written whole by each of its writers.
\* Served one after the other, two views leave what the handlers leave: the
\* entry of each viewed id is in the list, the last viewed first, and every
\* other entry is kept. Two views whose store calls interleave can end with
\* the entry of one of them missing (the witness).
C26_SerialKeepsUpdates ==
    /\ SerialOutcome
    /\ Serial =>
          /\ \A k \in 1..Len(pending) : pending[k].id \in Ids(history)
          /\ pending # <<>> =>
                /\ history[1].id = pending[Len(pending)].id
                /\ Ids(history) = Ids(pending[1].base.history) \cup Ids(pending)
    /\ \A a, b \in DOMAIN blobs :
          a # b =>
              LET both == viewFile(viewFile(St, a, clock).st, b, clock).st.history
              IN  /\ both[1].id = b /\ both[2].id = a
                  /\ Ids(both) = Ids(readHistory(history)) \cup {a, b}

\* two views of distinct files have ended, the second begun before the first
\* ended, and the history holds the entry of one of them only
C26_Witness ==
    /\ Overlapped
    /\ pending[1].id # pending[2].id
    /\ \E k \in 1..2 : pending[k].id \notin Ids(history)
    /\ \E k \in 1..2 : pending[k].id \in Ids(history)

\* the stores after the creation of file id: its blob, its record created at
\* the clock's reading with lastAccessedAt = stamp and neither archivedAt nor
\* folderId, its entry in front of the history as it was, everything else as
\* before; the file is listed by the file listing and heads the history view
Created(r, id, filename, source, size, stamp) ==
    /\ r.ok
    /\ DOMAIN r.st.blobs = DOMAIN blobs \cup {id}
    /\ r.st.blobs[id] = size
    /\ \A o \in DOMAIN blobs : r.st.blobs[o] = blobs[o]
    /\ DOMAIN r.st.meta = DOMAIN meta \cup {id}
    /\ r.st.meta[id] = [filename |-> filename, source |-> source, size |-> size,
                         created |-> clock, lastAccessedAt |-> stamp,
                         archivedAt |-> None, folderId |-> NoFolder]
    /\ \A o \in DOMAIN meta : r.st.meta[o] = meta[o]
    /\ Len(r.st.history) = Len(history) + 1
    /\ r.st.history[1].id = id
    /\ r.st.history[1].filename = filename
    /\ r.st.history[1].source = source
    /\ Tail(r.st.history) = history
    /\ r.st.folders = folders
    /\ id \in FileListing(r.st)
    /\ ListView(r.st)[1].id = id

\* the request is answered 400 and no store is written
Refused(r) == ~r.ok /\ r.error = 400 /\ r.st = St

\* what a creation does, with stamp(took) the lastAccessedAt it leaves when
\* its store calls take `took`
Creation(stamp(_)) ==
    /\ nextId \notin DOMAIN blobs \cup DOMAIN meta \cup Ids(history)
    /\ \A took \in 0..MaxLatency :
          LET later == clock + took
          IN  /\ Created(uploadAt(St, TRUE, Str_a_md, 3, nextId, clock, later),
                         nextId, Str_a_md, "upload", 3, stamp(took))
              /\ Created(uploadAt(St, TRUE, Str_empty, 0, nextId, clock, later),
                         nextId, Str_untitled, "upload", 0, stamp(took))
              /\ Refused(uploadAt(St, TRUE, Str_b_txt, 3, nextId, clock, later))
              /\ \A name \in {Str_a_md, Str_b_txt, Str_empty} :
                    Refused(uploadAt(St, FALSE, name, 3, nextId, clock, later))
              /\ Created(pasteAt(St, 5, Str_g, nextId, clock, later),
                         nextId, Str_g, "paste", 5, stamp(took))
              /\ Created(pasteAt(St, 5, Str_empty, nextId, clock, later),
                         nextId, Str_pasted, "paste", 5, stamp(took))
              /\ \A title \in {Str_g, Str_empty} :
                    Refused(pasteAt(St, 0, title, nextId, clock, later))

\* C31, as claimed: an upload of a .md file and a paste of non-empty content
\* store the blob under an id that was never used, write the metadata record
\* with lastAccessedAt equal to created, without archivedAt and folderId, and
\* put the entry at the front of the history, so that the file is Active; an
\* upload without a .md file and a paste without content are refused with 400
\* and write nothing.
C31_Creation == LET stamp(took) == clock IN Creation(stamp)

\* C31, amended: the same, except that lastAccessedAt is the time at which
\* the creation records its history entry: at or after created, later by the
\* time the store calls of the creation took, and equal to the entry's
\* viewedAt.
C31_CreationStamped ==
    /\ LET stamp(took) == clock + took IN Creation(stamp)
    /\ \A id \in DOMAIN meta :
          /\ meta[id].lastAccessedAt >= meta[id].created
          /\ \A k \in 1..Len(history) :
                history[k].id = id => history[k].viewedAt = meta[id].lastAccessedAt

\* a file whose creation took time heads the history, in front of the entry
\* of an older file
C31_Witness ==
    /\ Len(history) >= 2
    /\ history[1].id \in DOMAIN meta
    /\ meta[history[1].id].lastAccessedAt > meta[history[1].id].created
    /\ meta[history[1].id].lastAccessedAt = clock
    /\ history[2].id \in DOMAIN meta

\* C32: a file rename changes the display name only. With a name that is not
\* blank and an id that has a metadata record, filename becomes the trimmed
\* name in the record and in the id's history entry if there is one; the
\* entries keep their order and viewedAt, the record its source, size,
\* created, lastAccessedAt, archivedAt and folderId, and nothing else is
\* written. A blank name is refused with 400 and an id without a record with
\* 404, both before any write.
C32_RenameOnlyName ==
    \A id \in FileIds, filename \in {Str_empty, Str_blank, Str_x_padded, Str_g} :
        LET r == renameFile(St, id, filename)
            h == r.st.history
        IN  IF Blank(filename)
            THEN ~r.ok /\ r.error = 400 /\ r.st = St
            ELSE IF id \notin DOMAIN meta
            THEN ~r.ok /\ r.error = 404 /\ r.st = St
            ELSE /\ r.ok
                 /\ DOMAIN r.st.meta = DOMAIN meta
                 /\ IsTrimOf(r.st.meta[id].filename, filename)
                 /\ r.st.meta[id] = [meta[id] EXCEPT !.filename = r.st.meta[id].filename]
                 /\ \A o \in DOMAIN meta \ {id} : r.st.meta[o] = meta[o]
                 /\ Len(h) = Len(history)
                 /\ \A k \in 1..Len(h) :
                       IF history[k].id = id
                       THEN h[k] = [history[k] EXCEPT !.filename = r.st.meta[id].filename]
                       ELSE h[k] = history[k]
                 /\ r.st.blobs = blobs
                 /\ r.st.folders = folders

\* a renamed file that the sweep has archived, its entry behind that of
\* another file
C32_Witness ==
    /\ Len(history) >= 2
    /\ history[2].id \in DOMAIN meta
    /\ history[2].filename = <<"x">>
    /\ meta[history[2].id].filename = <<"x">>
    /\ Archived(meta[history[2].id])

\* C33: with requests and sweeps served one at a time, a sweep at time now
\* leaves alone every record whose last view or creation is less than 30 days
\* before now, and deletes no file whose last view or creation is less than
\* 60 days before now; a file that has just been viewed is Active after every
\* sweep of the following 30 days.
C33_YoungUntouched ==
    /\ LET swept == runRetention(St, clock)
       IN  \A id \in DOMAIN meta :
               LET age == clock - RefTime(meta[id])
               IN  /\ age < DELETE_MS =>
                         id \in DOMAIN swept.meta /\ id \in DOMAIN swept.blobs
                   /\ age < ARCHIVE_MS => swept.meta[id] = meta[id]
    /\ \A id \in DOMAIN blobs \cap DOMAIN meta :
          LET viewed == viewFile(St, id, clock).st
          IN  \A d1, d2 \in {0, TickStep, ARCHIVE_MS - 1} :
                  d1 <= d2 =>
                      LET once == runRetention(viewed, clock + d1)
                          twice == runRetention(once, clock + d2)
                      IN  /\ id \in FileListing(once)
                          /\ id \in FileListing(twice)
                          /\ id \in DOMAIN twice.blobs

\* a file created 60 days ago and viewed 15 days ago, beside a file that was
\* never viewed
C33_Witness ==
    /\ \E id \in DOMAIN meta :
          /\ clock - meta[id].created >= DELETE_MS
          /\ clock - meta[id].lastAccessedAt = TickStep
    /\ \E id \in DOMAIN meta : meta[id].lastAccessedAt = meta[id].created

\* C34: in every state reached by complete creations, views, renames,
\* explicit deletes, folder deletes, history operations and sweeps, a file id
\* has a metadata record exactly when it has a blob.
C34_MetaIffBlob == DOMAIN meta = DOMAIN blobs

\* the first file and the folder are gone and the second file, archived by a
\* sweep, remains
C34_Witness ==
    /\ nextFolder > 1
    /\ folders = <<>>
    /\ nextId = MaxFiles + 1
    /\ 1 \notin DOMAIN meta
    /\ 2 \in DOMAIN meta
    /\ meta[2].archivedAt # None

\* C35: with requests and sweeps served one at a time, every record that has
\* archivedAt has it at least 30 days after its reference time (lastAccessedAt,
\* or created when lastAccessedAt is absent), so that no record is both
\* archived and accessed within the last 30 days.
C35_ArchivedIsOld ==
    \A id \in DOMAIN meta :
        meta[id].archivedAt # None =>
            /\ meta[id].archivedAt >= RefTime(meta[id]) + ARCHIVE_MS
            /\ clock - RefTime(meta[id]) >= ARCHIVE_MS

\* an archived record that was viewed after its creation, beside an archived
\* record that has no lastAccessedAt
C35_Witness ==
    /\ \E id \in DOMAIN meta :
          /\ meta[id].archivedAt # None
          /\ meta[id].lastAccessedAt # None
          /\ meta[id].lastAccessedAt > meta[id].created
    /\ \E id \in DOMAIN meta :
          meta[id].archivedAt # None /\ meta[id].lastAccessedAt = None

\* the ids of the history entries of a store
HistoryIds(st) == {st.history[i].id : i \in 1..Len(st.history)}

\* a complete operation leaves no history entry for a record it deleted
Forgets(after) == HistoryIds(after) \cap (DOMAIN meta \ DOMAIN after.meta) = {}

\* C36: with requests and sweeps served one at a time, every id in the stored
\* history has a metadata record, archived or not, and every operation that
\* deletes a metadata record (explicit delete, folder delete, sweep) has
\* removed that id's history entry by the time it completes.
C36_HistoryHasMeta ==
    /\ HistoryIds(St) \subseteq DOMAIN meta
    /\ \A id \in FileIds : Forgets(deleteFile(St, id).st)
    /\ \A gid \in FolderIds : Forgets(deleteFolder(St, gid).st)
    /\ \A d \in {0, ARCHIVE_MS, DELETE_MS} : Forgets(runRetention(St, clock + d))

\* the history holds an archived file and a file filed in a folder, and the
\* sweep is about to delete one of them
C36_Witness ==
    /\ Len(history) = 2
    /\ \E i \in 1..2 : meta[history[i].id].archivedAt # None
    /\ \E i \in 1..2 : meta[history[i].id].folderId # NoFolder
    /\ DOMAIN runRetention(St, clock).meta # DOMAIN meta

\* C37: a view of an id whose blob is absent fails with NotFound and changes
\* nothing: no history entry is added or moved, no metadata record is created
\* or modified and no folder is changed; this holds as well when the record
\* and the history entry of the id are still there, as they are for an id
\* whose blob a delete request has just removed.
C37_ViewAbsent ==
    /\ \A id \in (FileIds \cup {nextId}) \ DOMAIN blobs :
          viewFile(St, id, clock) = NotFound(St)
    /\ \A id \in DOMAIN blobs :
          LET gone == [St EXCEPT !.blobs = Remove(@, id)]
          IN  viewFile(gone, id, clock) = NotFound(gone)

\* a file has been deleted and the history holds the entry of another file,
\* not the most recent stamp in the store
C37_Witness ==
    /\ \E id \in 1..(nextId - 1) : id \notin DOMAIN blobs
    /\ Len(history) = 1
    /\ history[1].id \in DOMAIN blobs
    /\ history[1].viewedAt < clock

\* every record in no folder is archived and was accessed less than 60 days ago
Settled ==
    \A id \in DOMAIN meta :
        meta[id].folderId = NoFolder =>
            meta[id].archivedAt # None /\ clock - RefTime(meta[id]) < DELETE_MS

\* the step in which run i of the sweep ends
SweepEnds(i) ==
    /\ Len(pending') = Len(pending)
    /\ At(i, "sweep", pending[i].pc)
    /\ pending[i].pc # "done"
    /\ pending'[i].pc = "done"

\* C38: with the sweep run again and again as time advances (weak fairness on
\* the trigger and on the store calls of a run), once the views have stopped
\* every file in no folder ends up archived or deleted, and deleted when 60
\* days have passed since its last access; a sweep leaves, when it ends, no
\* record that was 60 days old when it began and no unarchived record that was
\* 30 days old; every sweep that has begun ends.
C38_Reclaimed ==
    /\ <>[]Settled
    /\ [][\A i \in 1..Len(pending) :
              SweepEnds(i) =>
                  \A id \in DOMAIN meta' :
                      LET age == pending[i].now - RefTime(meta'[id])
                      IN  /\ age < DELETE_MS
                          /\ age >= ARCHIVE_MS => meta'[id].archivedAt # None]_vars
    /\ ~Quiet ~> Quiet

\* a sweep begun 60 days after the only access of a file has ended: the file
\* is deleted, and a file accessed 30 days later is archived
C38_Witness ==
    /\ pending # <<>>
    /\ At(1, "sweep", "done")
    /\ pending[1].now = DELETE_MS
    /\ pending[1].deletedIds # {}
    /\ pending[1].deletedIds \cap DOMAIN meta = {}
    /\ \E id \in DOMAIN meta : meta[id].archivedAt = DELETE_MS
====
